---- MODULE Spec2Model ----
(***************************************************************************)
(* Model of the multi3 forwarding proxy.                                   *)
(*                                                                         *)
(*   SpecDispatch  the listener workers and the shared id counter          *)
(*                 (src/src/main.rs)                                       *)
(*   SpecPool      the round-robin source address pool                     *)
(*                 (src/src/config.rs)                                     *)
(*   Spec          one connection served by handler.rs: sniff, HTTP,       *)
(*                 CONNECT, SOCKS5 TCP, SOCKS5 UDP, dial, relay            *)
(*                 (src/src/handler.rs)                                    *)
(*                                                                         *)
(* Bytes are naturals 0..255, IP addresses are their octet sequences (4    *)
(* octets for IPv4, 16 for IPv6), text is a sequence of one-character      *)
(* strings.                                                                *)
(***************************************************************************)
EXTENDS Naturals, Integers, Sequences, FiniteSets, TLC

VARIABLES
    \* ---- dispatcher (main.rs) ----
    idCounter,   \* the value inside Arc<Mutex<usize>>
    idOwner,     \* the worker holding the id mutex, as a set
    wpc,         \* per listener worker: position in the accept loop
    backlog,     \* per listener worker: clients waiting to be accepted
    accepts,     \* streams yielded by all the listeners so far
    stream,      \* per listener worker: the accept number of its stream
    spawned,     \* handler threads spawned, in lock order
    \* ---- address pool (config.rs) ----
    ip4,         \* IpPool<Ipv4Addr>
    ip6,         \* IpPool<Ipv6Addr>
    poolOwner,   \* per family: the caller holding the lock, as a set
    cpc,         \* per caller: position around next_ip4 / next_ip6
    log4,        \* addresses returned by next_ip4, in lock order
    log6,        \* addresses returned by next_ip6, in lock order
    \* ---- one connection (handler.rs) ----
    id,          \* the id the dispatcher gave the connection
    cfg,         \* Config: ipv6_first
    pc,          \* position of the handler thread
    bus,         \* the events sent on the mpsc channel, in order
    proto,       \* protocol path taken
    buf,         \* (buf, n): the bytes of the last read of the client
    addr,        \* the target
    hosts,       \* connect: candidates not yet tried
    reach,       \* the network: what binding/connecting to each would do
    cands,       \* the candidate list lookup_host returned
    tried,       \* outcome of each candidate connect has tried
    remote,      \* the upstream stream: local and peer address
    half,        \* per copy half: position in copy
    pend,        \* per copy half: bytes read and written, not yet reported
    sock,        \* state of the client and upstream sockets
    rd,          \* bytes read from each socket by the relay
    reads,       \* number of reads that returned data, per socket
    sniffed,     \* length of the first read
    toClient,    \* writes to the client socket, in order
    toRemote,    \* writes to the upstream socket, in order
    udpLocal,    \* socks_udp_relay: the learned client endpoint
    udpOut,      \* datagrams sent on the UDP socket
    dgrams,      \* datagrams received on the UDP socket
    \* ---- the environment of a handler ----
    clientSent,  \* what the client sent before the first read, when tracked
    answer,      \* what the name lookup returned, when tracked
    \* ---- the summary (drawer.rs) ----
    bit_counter, \* Summary::bit_counter: group -> (upload, download)
    jobs,        \* Summary::jobs: id -> Content
    consumed     \* the (id, group, event) triples update has consumed

dispVars == <<idCounter, idOwner, wpc, backlog, accepts, stream, spawned>>
poolLocks == <<poolOwner, cpc, log4, log6>>
poolVars == <<ip4, ip6, poolOwner, cpc, log4, log6>>
connVars == <<id, cfg, pc, bus, proto, buf, addr, hosts, reach, cands,
              tried, remote, half, pend, sock, rd, reads, sniffed, toClient,
              toRemote, udpLocal, udpOut, dgrams, clientSent, answer,
              bit_counter, jobs, consumed>>
vars == <<dispVars, poolVars, connVars>>

\* ------------------------------------------------------------------------
\* Bounds of the model
\* ------------------------------------------------------------------------
NumWorkers == 2      \* listener workers sharing the id counter
MaxAccepts == 3      \* accepted connections
MaxBacklog == 1      \* clients queued on one listener
NumCallers == 2      \* handler threads calling the pool concurrently
MaxCalls == 4        \* calls of next per family

NoOwner == {}
Workers == 1..NumWorkers
Callers == 1..NumCallers

\* ------------------------------------------------------------------------
\* Generic helpers
\* ------------------------------------------------------------------------
Min(a, b) == IF a < b THEN a ELSE b

Range(s) == {s[i] : i \in 1..Len(s)}

\* s[a..b] with Rust's half-open, zero-based bounds: &s[a..b]
Slice(s, a, b) == [i \in 1..(b - a) |-> s[a + i]]

\* ------------------------------------------------------------------------
\* IP addresses
\* ------------------------------------------------------------------------
Zeros(n) == [i \in 1..n |-> 0]
V4_UNSPECIFIED == Zeros(4)
V6_UNSPECIFIED == Zeros(16)
V4a == <<10, 0, 0, 1>>
V4b == <<10, 0, 0, 2>>
V6a == <<32, 1>> \o Zeros(13) \o <<1>>
V6b == <<32, 1>> \o Zeros(13) \o <<2>>
is_ipv4(ip) == Len(ip) = 4
is_ipv6(ip) == Len(ip) = 16

\* ------------------------------------------------------------------------
\* config.rs: IpPool
\* ------------------------------------------------------------------------
IpPool_new(iter, default) == [val |-> iter, index |-> 0, default |-> default]

\* the reset test of IpPool::next
IndexPastEndSkewed(index, len) == index > len
IndexPastEnd(index, len) == index >= len

\* IpPool::next: the returned address and the pool afterwards
IpPool_next(p) ==
    LET i == IF IndexPastEnd(p.index, Len(p.val)) THEN 0 ELSE p.index
        ans == IF i < Len(p.val) THEN p.val[i + 1] ELSE p.default
    IN  [ans |-> ans, pool |-> [p EXCEPT !.index = i + 1]]

Pools4 == {<<>>, <<V4a>>, <<V4a, V4b>>}
Pools6 == {<<>>, <<V6a>>, <<V6a, V6b>>}

\* HandlerConfig::new
HandlerConfig_new(v4, v6) ==
    /\ ip4 = IpPool_new(v4, V4_UNSPECIFIED)
    /\ ip6 = IpPool_new(v6, V6_UNSPECIFIED)

\* ------------------------------------------------------------------------
\* Inputs of one connection
\* ------------------------------------------------------------------------
MaxHosts == 2        \* longest answer of the name lookup
MaxReads == 2        \* reads returning data during one relay
MaxDgrams == 2       \* datagrams received by one UDP association

\* Option / Result values
None == [tag |-> "none"]
Some(x) == [tag |-> "some", val |-> x]
Panic == [tag |-> "panic"]

\* HTTP text: a request is its sequence of whitespace-separated tokens
T_GET == <<"G", "E", "T">>
T_CONNECT == <<"C", "O", "N", "N", "E", "C", "T">>
T_slash == <<"/">>
T_ver == <<"H", "T", "T", "P", "/", "1", ".", "1">>
T_Host == <<"H", "o", "s", "t", ":">>
T_name == <<"a", ".", "t">>
T_v6 == <<"[", ":", ":", "1", "]">>
T_v6_443 == <<"[", ":", ":", "1", "]", ":", "4", "4", "3">>
T_junk == <<"?">>

\* &str::eq_ignore_ascii_case
to_ascii_lowercase(ch) ==
    CASE ch = "H" -> "h" [] ch = "O" -> "o" [] ch = "S" -> "s"
      [] ch = "T" -> "t" [] OTHER -> ch
eq_ignore_ascii_case(a, b) ==
    /\ Len(a) = Len(b)
    /\ \A i \in 1..Len(a) : to_ascii_lowercase(a[i]) = to_ascii_lowercase(b[i])

starts_with(s, prefix) ==
    /\ Len(s) >= Len(prefix)
    /\ \A i \in 1..Len(prefix) : s[i] = prefix[i]
contains(s, ch) == \E i \in 1..Len(s) : s[i] = ch

\* Iterator::skip_while(|x| !x.eq_ignore_ascii_case("Host:"))
RECURSIVE skip_while_not_host(_)
skip_while_not_host(toks) ==
    IF toks = <<>> THEN <<>>
    ELSE IF eq_ignore_ascii_case(Head(toks), T_Host) THEN toks
    ELSE skip_while_not_host(Tail(toks))

\* Iterator::nth(1)
nth1(toks) == IF Len(toks) >= 2 THEN Some(toks[2]) ELSE None

\* the rest of an iterator after nth(1) consumed two items
after_nth1(toks) == IF Len(toks) >= 2 THEN SubSeq(toks, 3, Len(toks)) ELSE <<>>

\* the ":80" suffix test of http_addr
NeedsPort80(a) ==
    \/ (a # <<>> /\ a[1] = "[" /\ a[Len(a)] = "]")
    \/ ~contains(a, ":")

\* http_addr: the target of the request whose tokens are toks
http_addr(toks) ==
    LET path == nth1(toks)
        host == nth1(skip_while_not_host(after_nth1(toks)))
        found == IF host.tag = "some" THEN host ELSE path
    IN  IF found.tag = "none" THEN None
        ELSE IF NeedsPort80(found.val)
             THEN Some(found.val \o <<":", "8", "0">>)
             ELSE found

\* number of bytes of a request: its tokens and one separator after each
RECURSIVE TextLen(_)
TextLen(toks) ==
    IF toks = <<>> THEN 0 ELSE Len(Head(toks)) + 1 + TextLen(Tail(toks))

TextRead(toks) == [text |-> TRUE, toks |-> toks, bytes |-> <<>>, n |-> TextLen(toks)]
ByteRead(bytes) == [text |-> FALSE, toks |-> <<>>, bytes |-> bytes, n |-> Len(bytes)]

\* what the first read of the client socket can return
FirstReads ==
    { ByteRead(<<>>),                                      \* Err or Ok(0)
      ByteRead(<<5, 1>>),                                  \* too short
      ByteRead(<<254, 1, 2>>),                             \* neither
      ByteRead(<<5, 1, 0>>),                               \* greeting, no auth
      ByteRead(<<5, 1, 2>>),                               \* greeting, no 0x00
      TextRead(<<T_GET, T_slash, T_ver, T_Host, T_name>>),
      TextRead(<<T_GET>>),
      TextRead(<<T_CONNECT, T_v6_443, T_ver, T_Host, T_v6_443>>) }

\* what the uninitialised tail of the buffer can hold past the n bytes read:
\* nothing that makes a token, or a token
Tails == {<<>>, <<T_junk>>}

\* buf[0], for the sniff
FirstByte(r) == IF r.text THEN 71 ELSE r.bytes[1]

\* the validity test over all the n bytes read
from_utf8_whole(r) == r.text \/ \A i \in 1..r.n : r.bytes[i] < 128

\* str::from_utf8(&buf[..n.min(16)]).is_ok(); the byte inputs of the model
\* have no multi-byte sequences, so a byte above 0x7f makes it fail
from_utf8_ok(r) ==
    r.text \/ \A i \in 1..Min(r.n, 16) : r.bytes[i] < 128

\* ------------------------------------------------------------------------
\* SOCKS5 codec
\* ------------------------------------------------------------------------
\* u16::to_le_bytes: the low byte first
to_le_bytes(port) == <<port % 256, port \div 256>>

\* u16::to_be_bytes / from_be_bytes
to_be_bytes(port) == <<port \div 256, port % 256>>
from_be_bytes(b) == b[1] * 256 + b[2]

SocketAddr(ip, port) == [ip |-> ip, port |-> port]

\* the offset after the address and port that socks_prase_host returns for
\* an IPv4 / IPv6 / domain address
HostEnd(atyp, len) ==
    CASE atyp = 1 -> 7
      [] atyp = 4 -> 19
      [] OTHER -> 2 + len + 2

\* socks_prase_host(buffer): Some((host:port, offset)), None, or a panic of
\* an out-of-range slice
socks_prase_host(buffer) ==
    IF Len(buffer) < 1 THEN Panic
    ELSE CASE buffer[1] = 1 ->
                IF Len(buffer) < 7 THEN Panic
                ELSE Some([addr |-> [atyp |-> 1, host |-> Slice(buffer, 1, 5),
                                     port |-> from_be_bytes(Slice(buffer, 5, 7))],
                           d |-> HostEnd(1, 0)])
           [] buffer[1] = 4 ->
                IF Len(buffer) < 19 THEN Panic
                ELSE Some([addr |-> [atyp |-> 4, host |-> Slice(buffer, 1, 17),
                                     port |-> from_be_bytes(Slice(buffer, 17, 19))],
                           d |-> HostEnd(4, 0)])
           [] buffer[1] = 3 ->
                IF Len(buffer) < 2 THEN Panic
                ELSE LET len == buffer[2] IN
                     IF Len(buffer) < 2 + len + 2 THEN Panic
                     ELSE IF \E i \in 3..(2 + len) : buffer[i] >= 128 THEN None
                     ELSE Some([addr |-> [atyp |-> 3,
                                          host |-> Slice(buffer, 2, 2 + len),
                                          port |-> from_be_bytes(
                                              Slice(buffer, 2 + len, 2 + len + 2))],
                                d |-> HostEnd(3, len)])
           [] OTHER -> None

\* socks_prase_request(buffer): Some((cmd, addr, offset)), None or a panic
socks_prase_request(buffer) ==
    IF Len(buffer) < 3 THEN Panic
    ELSE LET h == socks_prase_host(Slice(buffer, 3, Len(buffer))) IN
         IF h.tag = "some"
         THEN Some([cmd |-> buffer[2], addr |-> h.val.addr, d |-> h.val.d])
         ELSE h

\* build_socks_response(cmd, addr, buf): the n bytes it writes at buf[..n]
build_socks_response(cmd, a) ==
    IF is_ipv4(a.ip)
    THEN <<5, cmd, 0, 1>> \o a.ip \o to_be_bytes(a.port)
    ELSE <<5, cmd, 0, 4>> \o a.ip \o to_be_bytes(a.port)

\* a header that says ATYP 01 whatever the family of the address
build_socks_udp_atyp1(a, data) ==
    <<0, 0, 0, 1>> \o a.ip \o to_be_bytes(a.port) \o data

\* build_socks_udp(addr, data)
build_socks_udp(a, data) ==
    IF is_ipv4(a.ip)
    THEN <<0, 0, 0, 1>> \o a.ip \o to_be_bytes(a.port) \o data
    ELSE <<0, 0, 0, 4>> \o a.ip \o to_be_bytes(a.port) \o data

\* what the read of the SOCKS5 request can return
SocksRequests ==
    { <<5, 1, 0, 1, 127, 0, 0, 1, 0, 9>>,      \* CONNECT 127.0.0.1:9
      <<5, 1, 0, 3, 1, 97, 0, 80>>,            \* CONNECT "a":80
      <<5, 3, 0, 1, 0, 0, 0, 0, 0, 0>>,        \* UDP ASSOCIATE
      <<5, 2, 0, 1, 127, 0, 0, 1, 0, 9>>,      \* BIND
      <<5, 1, 0, 9, 1, 2, 3, 4, 0, 9>>,        \* unsupported ATYP
      <<5, 1, 0, 1, 127, 0>>,                  \* truncated
      <<>> }                                   \* Ok(0): the client closed

\* ------------------------------------------------------------------------
\* Spec: one connection served by handler.rs
\* ------------------------------------------------------------------------
Sockets == {"local", "remote"}
Halves == {"up", "down"}
ReadSizes == {1, 2}

\* event.rs: Event, tagged with the connection id as it is sent
Ev(kind, arg) == [id |-> id, ev |-> kind, arg |-> arg]

\* the name lookup
Cand4 == SocketAddr(<<93, 0, 0, 1>>, 80)
Cand6 == SocketAddr(<<38, 6>> \o Zeros(13) \o <<1>>, 80)
Loopback6 == Zeros(15) \o <<1>>
Kernel4 == <<192, 168, 0, 1>>
Kernel6 == <<254, 128>> \o Zeros(13) \o <<1>>

RECURSIVE SeqsUpTo(_, _)
SeqsUpTo(S, n) ==
    IF n = 0 THEN {<<>>}
    ELSE LET shorter == SeqsUpTo(S, n - 1)
         IN  shorter \cup {Append(s, x) : s \in {t \in shorter : Len(t) = n - 1}, x \in S}

\* a target: text (atyp 0) or the address of a SOCKS5 request
TextAddr(text) == [atyp |-> 0, host |-> text, port |-> 0]

\* addr.to_socket_addrs(): a literal parses to itself, a name is looked up
to_socket_addrs(a) ==
    IF a.atyp = 1 \/ a.atyp = 4
    THEN {Some(<<SocketAddr(a.host, a.port)>>)}
    ELSE IF a.atyp = 0 /\ a.host = T_v6_443
    THEN {Some(<<SocketAddr(Loopback6, 443)>>)}
    ELSE {None} \cup {Some(l) : l \in SeqsUpTo({Cand4, Cand6}, MaxHosts)}

\* IpPool: whether the pool has an address of the family
have_v4 == ip4.val # <<>>
have_v6 == ip6.val # <<>>

Bit(b) == IF b THEN 1 ELSE 0

\* the key of sort_by_key without its first component
SortKeyFamilyOnly(a, ipv6_first) == Bit(is_ipv6(a.ip) = ipv6_first)

\* the key of sort_by_key in lookup_host, false before true
SortKey(a, ipv6_first) ==
    2 * Bit(~((have_v4 /\ is_ipv4(a.ip)) \/ (have_v6 /\ is_ipv6(a.ip))))
      + Bit(is_ipv6(a.ip) = ipv6_first)

\* slice::sort_by_key, a stable sort
WithKey(s, k, ipv6_first) ==
    LET Has(a) == SortKey(a, ipv6_first) = k IN SelectSeq(s, Has)
sort_by_key(s, ipv6_first) ==
    WithKey(s, 0, ipv6_first) \o WithKey(s, 1, ipv6_first)
        \o WithKey(s, 2, ipv6_first) \o WithKey(s, 3, ipv6_first)

\* lookup_host without the test for an empty result
lookup_host_unchecked(res) ==
    IF res.tag = "none" THEN None
    ELSE Some(IF cfg.ipv6_first.tag = "some"
              THEN sort_by_key(res.val, cfg.ipv6_first.val)
              ELSE res.val)

\* lookup_host, given what to_socket_addrs returned
lookup_host(res) ==
    IF res.tag = "none" THEN None
    ELSE LET addrs == IF cfg.ipv6_first.tag = "some"
                      THEN sort_by_key(res.val, cfg.ipv6_first.val)
                      ELSE res.val
         IN  IF addrs = <<>> THEN None ELSE Some(addrs)

\* what the network does with the attempt on a candidate: the socket or the
\* bind fails, or builder.connect returns Ok, or Err (refused, unreachable
\* or timed out alike)
Outcomes == {"ok", "bind_err", "connect_err"}

HTTP_404 == "HTTP/1.1 404 Not Found\r\n\r\n"
HTTP_500 == "HTTP/1.1 500 Internal Server Error\r\n\r\n"
HTTP_200 == "HTTP/1.1 200 Connection Established\r\n\r\n"
HTTP_400 == "HTTP/1.1 400 Bad Request\r\n\r\n"
Text(s) == [text |-> s]
Bytes(b) == [bytes |-> b]

\* what no action of a handler changes
envVars == <<clientSent, answer>>
sumVars == <<bit_counter, jobs, consumed>>
connFixed == <<id, cfg, envVars, sumVars>>
dialVars == <<hosts, reach, cands, tried, remote>>
relayVars == <<half, pend, sock, rd, reads, toRemote>>
udpVars == <<udpLocal, udpOut, dgrams>>

HandlerIdle ==
    /\ pc = "accepted"
    /\ bus = <<>>
    /\ proto = "none"
    /\ buf = ByteRead(<<>>)
    /\ addr = None
    /\ hosts = <<>>
    /\ reach = <<>>
    /\ cands = <<>>
    /\ tried = <<>>
    /\ remote = None
    /\ half = [h \in Halves |-> "none"]
    /\ pend = [h \in Halves |-> 0]
    /\ sock = [s \in Sockets |-> IF s = "local" THEN "open" ELSE "none"]
    /\ rd = [s \in Sockets |-> 0]
    /\ reads = [s \in Sockets |-> 0]
    /\ sniffed = 0
    /\ toClient = <<>>
    /\ toRemote = <<>>
    /\ udpLocal = None
    /\ udpOut = <<>>
    /\ dgrams = <<>>
    /\ bit_counter = <<>>
    /\ jobs = <<>>
    /\ consumed = <<>>

\* nothing tracked of the client's stream and of the name lookup
EnvIdle ==
    /\ clientSent = <<>>
    /\ answer = None

ConnIdle == HandlerIdle /\ EnvIdle

\* ------------------------------------------------------------------------
\* SpecPool: handler threads calling next_ip4 / next_ip6
\* ------------------------------------------------------------------------
Families == {"v4", "v6"}

PoolIdle ==
    /\ poolOwner = [f \in Families |-> NoOwner]
    /\ cpc = [c \in Callers |-> "idle"]
    /\ log4 = <<>>
    /\ log6 = <<>>

DispIdle ==
    /\ idCounter = 0
    /\ idOwner = NoOwner
    /\ wpc = [w \in Workers |-> "incoming"]
    /\ backlog = [w \in Workers |-> 0]
    /\ accepts = 0
    /\ stream = [w \in Workers |-> 0]
    /\ spawned = <<>>

InitPool ==
    /\ \E v4 \in Pools4, v6 \in Pools6 : HandlerConfig_new(v4, v6)
    /\ PoolIdle
    /\ DispIdle
    /\ id = 0
    /\ cfg = [ipv6_first |-> None]
    /\ ConnIdle

\* self.ip4.lock().unwrap() / self.ip6.lock().unwrap()
pool_lock(c, f) ==
    /\ cpc[c] = "idle"
    /\ poolOwner[f] = NoOwner
    /\ Len(IF f = "v4" THEN log4 ELSE log6) < MaxCalls
    /\ poolOwner' = [poolOwner EXCEPT ![f] = {c}]
    /\ cpc' = [cpc EXCEPT ![c] = f]
    /\ UNCHANGED <<ip4, ip6, log4, log6, dispVars, connVars>>

\* HandlerConfig::next_ip4: next() under the guard, guard dropped on return
next_ip4(c) ==
    /\ cpc[c] = "v4"
    /\ poolOwner["v4"] = {c}
    /\ LET r == IpPool_next(ip4)
       IN  /\ ip4' = r.pool
           /\ log4' = Append(log4, r.ans)
    /\ poolOwner' = [poolOwner EXCEPT !["v4"] = NoOwner]
    /\ cpc' = [cpc EXCEPT ![c] = "idle"]
    /\ UNCHANGED <<ip6, log6, dispVars, connVars>>

\* HandlerConfig::next_ip6
next_ip6(c) ==
    /\ cpc[c] = "v6"
    /\ poolOwner["v6"] = {c}
    /\ LET r == IpPool_next(ip6)
       IN  /\ ip6' = r.pool
           /\ log6' = Append(log6, r.ans)
    /\ poolOwner' = [poolOwner EXCEPT !["v6"] = NoOwner]
    /\ cpc' = [cpc EXCEPT ![c] = "idle"]
    /\ UNCHANGED <<ip4, log4, dispVars, connVars>>

NextPool ==
    \/ \E c \in Callers, f \in Families : pool_lock(c, f)
    \/ \E c \in Callers : next_ip4(c)
    \/ \E c \in Callers : next_ip6(c)

SpecPool == InitPool /\ [][NextPool]_vars

\* ------------------------------------------------------------------------
\* SpecDispatch: main.rs, the listener workers
\* ------------------------------------------------------------------------
InitDispatch ==
    /\ DispIdle
    /\ HandlerConfig_new(<<>>, <<>>)
    /\ PoolIdle
    /\ id = 0
    /\ cfg = [ipv6_first |-> None]
    /\ ConnIdle

\* clients queued on the listeners 1..n, and streams not yet given an id
RECURSIVE Waiting(_)
Waiting(n) ==
    IF n = 0 THEN 0
    ELSE backlog[n] + (IF wpc[n] = "stream" THEN 1 ELSE 0) + Waiting(n - 1)

\* a client connects to the listener of worker w
client_connect(w) ==
    /\ backlog[w] < MaxBacklog
    /\ Len(spawned) + Waiting(NumWorkers) < MaxAccepts + 1
    /\ backlog' = [backlog EXCEPT ![w] = @ + 1]
    /\ UNCHANGED <<idCounter, idOwner, wpc, accepts, stream, spawned,
                   poolVars, connVars>>

\* listener.incoming() yields Ok(stream)
incoming(w) ==
    /\ wpc[w] = "incoming"
    /\ backlog[w] > 0
    /\ backlog' = [backlog EXCEPT ![w] = @ - 1]
    /\ wpc' = [wpc EXCEPT ![w] = "stream"]
    /\ accepts' = accepts + 1
    /\ stream' = [stream EXCEPT ![w] = accepts + 1]
    /\ UNCHANGED <<idCounter, idOwner, spawned, poolVars, connVars>>

\* let mut id = id.lock().unwrap();
id_lock(w) ==
    /\ wpc[w] = "stream"
    /\ idOwner = NoOwner
    /\ Len(spawned) < MaxAccepts
    /\ idOwner' = {w}
    /\ wpc' = [wpc EXCEPT ![w] = "locked"]
    /\ UNCHANGED <<idCounter, backlog, accepts, stream, spawned, poolVars,
                   connVars>>

\* *id += 1 yields the id of the connection
BumpStale(c) == c
Bump(c) == c + 1

\* *id += 1;
id_incr(w) ==
    /\ wpc[w] = "locked"
    /\ idOwner = {w}
    /\ idCounter' = Bump(idCounter)
    /\ wpc' = [wpc EXCEPT ![w] = "bumped"]
    /\ UNCHANGED <<idOwner, backlog, accepts, stream, spawned, poolVars,
                   connVars>>

\* let id = id.clone(); thread::spawn(handle(id, ..)); the guard drops at
\* the end of the block
spawn_handler(w) ==
    /\ wpc[w] = "bumped"
    /\ idOwner = {w}
    /\ spawned' = Append(spawned, [id |-> idCounter, accept |-> stream[w],
                                   worker |-> w])
    /\ idOwner' = NoOwner
    /\ wpc' = [wpc EXCEPT ![w] = "incoming"]
    /\ UNCHANGED <<idCounter, backlog, accepts, stream, poolVars, connVars>>

NextDispatch ==
    \/ \E w \in Workers : client_connect(w)
    \/ \E w \in Workers : incoming(w)
    \/ \E w \in Workers : id_lock(w)
    \/ \E w \in Workers : id_incr(w)
    \/ \E w \in Workers : spawn_handler(w)

SpecDispatch == InitDispatch /\ [][NextDispatch]_vars

\* the pools and the preference a routing is configured with
ConnPools == {<<<<>>, <<>>>>, <<<<V4a, V4b>>, <<>>>>, <<<<V4a>>, <<V6a>>>>}
Preferences == {None, Some(TRUE), Some(FALSE)}

Init ==
    /\ id = 1
    /\ \E p \in ConnPools : HandlerConfig_new(p[1], p[2])
    /\ cfg \in [ipv6_first : Preferences]
    /\ ConnIdle
    /\ PoolIdle
    /\ DispIdle

\* the wrapper in handle: if let Err(e) = .. { send Error }
Failed(reason) ==
    /\ bus' = Append(bus, Ev("Error", reason))
    /\ pc' = "returned"

\* handle: the first read, which returns one of reads_ into a buffer whose
\* tail holds one of tails_, and the sniff
handle_from(reads_, tails_) ==
    /\ pc = "accepted"
    /\ \E r \in reads_, tail \in tails_ :
        /\ buf' = r
        /\ sniffed' = r.n
        /\ IF r.n = 0
           THEN /\ pc' = "returned"
                /\ UNCHANGED <<bus, addr>>
           ELSE IF r.n < 3
           THEN /\ bus' = bus \o <<Ev("Received", "peer"), Ev("Error", "Too short")>>
                /\ pc' = "returned"
                /\ UNCHANGED addr
           ELSE IF FirstByte(r) = 5
           THEN /\ bus' = Append(bus, Ev("Received", "peer"))
                /\ pc' = "socks_recv"
                /\ UNCHANGED addr
           ELSE IF from_utf8_ok(r)
           THEN LET a == http_addr(r.toks \o tail) IN
                /\ bus' = Append(bus, Ev("Received", "peer"))
                /\ IF a.tag = "none"
                   THEN /\ pc' = "panicked"         \* expect("No addr found")
                        /\ UNCHANGED addr
                   ELSE /\ addr' = Some(TextAddr(a.val))
                        /\ pc' = IF starts_with(r.toks[1], T_CONNECT)
                                 THEN "https_resolved" ELSE "http_resolved"
           ELSE /\ bus' = bus \o <<Ev("Received", "peer"),
                                   Ev("Error", "Unknown protocol")>>
                /\ pc' = "returned"
                /\ UNCHANGED addr
    /\ UNCHANGED <<connFixed, proto, dialVars, relayVars, toClient,
                   udpVars, dispVars, poolVars>>

handle == handle_from(FirstReads, Tails)

\* socks_recv: the greeting
socks_recv ==
    /\ pc = "socks_recv"
    /\ IF ~(0 \in Range(Slice(buf.bytes, 2, buf.n)))
       THEN /\ toClient' = Append(toClient, Bytes(<<5, 255>>))
            /\ Failed("Invalid authentication")
       ELSE \E wrote \in BOOLEAN :
            IF wrote
            THEN /\ toClient' = Append(toClient, Bytes(<<5, 0>>))
                 /\ pc' = "socks_handle_request"
                 /\ UNCHANGED bus
            ELSE /\ Failed("IoError")
                 /\ UNCHANGED toClient
    /\ UNCHANGED <<connFixed, proto, buf, addr, dialVars, relayVars,
                   sniffed, udpVars, dispVars, poolVars>>

\* socks_handle_request: read and parse the request, branch on the command
socks_handle_request ==
    /\ pc = "socks_handle_request"
    /\ \/ /\ Failed("IoError")                      \* local.read(..)?
          /\ UNCHANGED <<buf, addr>>
       \/ \E bytes \in SocksRequests :
          LET req == socks_prase_request(bytes) IN
            /\ buf' = ByteRead(bytes)
            /\ UNCHANGED bus
            /\ IF req.tag # "some"
               THEN /\ pc' = "panicked"             \* index, or unwrap of None
                    /\ UNCHANGED addr
               ELSE /\ addr' = Some(req.val.addr)
                    /\ pc' = CASE req.val.cmd = 1 -> "socks_tcp_resolved"
                               [] req.val.cmd = 3 -> "socks_udp_resolved"
                               [] OTHER -> "returned"
    /\ UNCHANGED <<connFixed, proto, dialVars, relayVars, sniffed,
                   toClient, udpVars, dispVars, poolVars>>

\* the failure reply with the mark put in the RSV byte instead of REP: the
\* variant the reply of C9 is tested against
SocksFailureRsv(bytes) == Bytes([bytes EXCEPT ![3] = 4])

\* the reply of socks_tcp_resolved on failure: buf[1] = 0x04, buf[..n] echoed
SocksFailure(bytes) == Bytes([bytes EXCEPT ![2] = 4])

\* the head of http_resolved / https_resolved / socks_tcp_resolved:
\* Recognized, Resolved, lookup_host
Resolving(at, p, notFound) ==
    /\ pc = at
    /\ proto' = p
    /\ \E res \in to_socket_addrs(addr.val) :
        LET found == lookup_host(res) IN
        IF found.tag = "none"
        THEN /\ toClient' = Append(toClient, notFound)
             /\ bus' = bus \o <<Ev("Recognized", p), Ev("Resolved", addr.val),
                                Ev("Error", "DNS fails")>>
             /\ pc' = "returned"
             /\ UNCHANGED <<hosts, reach, cands>>
        ELSE /\ bus' = bus \o <<Ev("Recognized", p), Ev("Resolved", addr.val)>>
             /\ hosts' = found.val
             /\ cands' = found.val
             /\ reach' \in [1..Len(found.val) -> Outcomes]
             /\ pc' = "connect"
             /\ UNCHANGED toClient
    /\ UNCHANGED <<connFixed, buf, addr, tried, remote, relayVars,
                   sniffed, udpVars, dispVars, poolVars>>

http_resolved == Resolving("http_resolved", "Http", Text(HTTP_404))
https_resolved == Resolving("https_resolved", "Https", Text(HTTP_404))
socks_tcp_resolved ==
    Resolving("socks_tcp_resolved", "Socks5Tcp", SocksFailure(buf.bytes))

\* the local address of a socket of the other family than src
LocalAddrCrossed(src) ==
    SocketAddr(IF Len(src) = 4 THEN Kernel6 ELSE Kernel4, 40000)

\* the local address of a socket bound to src: the kernel picks the address
\* when src is unspecified, and always picks the port
LocalAddr(src) ==
    SocketAddr(IF src = V4_UNSPECIFIED THEN Kernel4
               ELSE IF src = V6_UNSPECIFIED THEN Kernel6 ELSE src,
               40000)

\* connect: one iteration of the loop over hosts, or the Err after the loop
connect ==
    /\ pc = "connect"
    /\ IF hosts = <<>>
       THEN /\ pc' = "connect_exhausted"
            /\ UNCHANGED <<bus, hosts, reach, tried, remote, ip4, ip6>>
       ELSE LET host == Head(hosts)
                o == Head(reach)
                r == IpPool_next(IF is_ipv4(host.ip) THEN ip4 ELSE ip6)
            IN  /\ IF is_ipv4(host.ip)
                   THEN ip4' = r.pool /\ UNCHANGED ip6
                   ELSE ip6' = r.pool /\ UNCHANGED ip4
                /\ tried' = Append(tried, o)
                /\ hosts' = Tail(hosts)
                /\ reach' = Tail(reach)
                /\ IF o = "bind_err"             \* Socket::new(..)? / bind(..)?
                   THEN /\ pc' = "connect_bind_err"
                        /\ UNCHANGED <<bus, remote>>
                   ELSE IF o = "ok"
                   THEN /\ pc' = "connect_ok"
                        /\ remote' = Some([local |-> LocalAddr(r.ans), peer |-> host])
                        /\ UNCHANGED bus
                   ELSE /\ bus' = Append(bus, Ev("Retry", "retry"))
                        /\ UNCHANGED <<pc, remote>>
    /\ UNCHANGED <<connFixed, proto, buf, addr, cands, relayVars,
                   sniffed, toClient, udpVars, dispVars, poolLocks>>

DialFailed == pc \in {"connect_bind_err", "connect_exhausted"}
DialError ==
    IF pc = "connect_exhausted"
    THEN "Failed to connect: IoError(Custom { kind: HostUnreachable, error: \"All hosts are unreachable\" })"
    ELSE "Failed to connect: IoError(Os)"

\* tcp_relay with the Connected event left out: the variant the event order
\* of C1 is tested against
tcp_relay_unannounced ==
    /\ UNCHANGED bus
    /\ half' = [h \in Halves |-> "read"]
    /\ pc' = "tcp_relay"

\* tcp_relay, up to the spawn: Connected, then the two copies run
tcp_relay ==
    /\ bus' = Append(bus, Ev("Connected", [bind |-> remote.val.local.ip,
                                         peer |-> remote.val.peer]))
    /\ half' = [h \in Halves |-> "read"]
    /\ pc' = "tcp_relay"

\* the Err arm of match connect(..)
ConnectErrArm(reply) ==
    /\ toClient' = Append(toClient, reply)
    /\ Failed(DialError)
    /\ UNCHANGED <<relayVars, hosts, reach>>

\* the upstream's input with the sniffed request left out
ForwardNothing(out, request) == out

\* remote.write_all(&buf[..n]): the n bytes of the first read
ForwardSniffed(out, request) == Append(out, [request |-> request])

\* http_resolved: match connect(..)
http_resolved_connect ==
    /\ proto = "Http"
    /\ \/ /\ pc = "connect_ok"
          /\ hosts' = <<>>                    \* the rest is not tried
          /\ reach' = <<>>
          /\ \E wrote \in BOOLEAN :           \* remote.write_all(&buf[..n])?
             IF wrote
             THEN /\ toRemote' = ForwardSniffed(toRemote, buf)
                  /\ sock' = [sock EXCEPT !["remote"] = "open"]
                  /\ tcp_relay
             ELSE /\ sock' = [sock EXCEPT !["remote"] = "broken"]
                  /\ Failed("IoError")
                  /\ UNCHANGED <<toRemote, half>>
          /\ UNCHANGED <<toClient, pend, rd, reads>>
       \/ /\ DialFailed
          /\ ConnectErrArm(Text(HTTP_500))
    /\ UNCHANGED <<connFixed, proto, buf, addr, cands, tried, remote, sniffed,
                   udpVars, dispVars, poolVars>>

\* https_resolved: match connect(..)
https_resolved_connect ==
    /\ proto = "Https"
    /\ \/ /\ pc = "connect_ok"
          /\ hosts' = <<>>                    \* the rest is not tried
          /\ reach' = <<>>
          /\ \E wrote \in BOOLEAN :           \* local.write_all(200)?
             IF wrote
             THEN /\ toClient' = Append(toClient, Text(HTTP_200))
                  /\ sock' = [sock EXCEPT !["remote"] = "open"]
                  /\ tcp_relay
             ELSE /\ sock' = [sock EXCEPT !["local"] = "broken",
                                          !["remote"] = "open"]
                  /\ Failed("IoError")
                  /\ UNCHANGED <<toClient, half>>
          /\ UNCHANGED <<toRemote, pend, rd, reads>>
       \/ /\ DialFailed
          /\ ConnectErrArm(Text(HTTP_500))
    /\ UNCHANGED <<connFixed, proto, buf, addr, cands, tried, remote, sniffed,
                   udpVars, dispVars, poolVars>>

\* socks_tcp_resolved: match connect(..)
socks_tcp_resolved_connect ==
    /\ proto = "Socks5Tcp"
    /\ \/ /\ pc = "connect_ok"
          /\ hosts' = <<>>                    \* the rest is not tried
          /\ reach' = <<>>
          /\ toClient' = Append(toClient,
                                Bytes(build_socks_response(0, remote.val.local)))
          /\ sock' = [sock EXCEPT !["remote"] = "open"]
          /\ tcp_relay
          /\ UNCHANGED <<toRemote, pend, rd, reads>>
       \/ /\ DialFailed
          /\ ConnectErrArm(SocksFailure(buf.bytes))
    /\ UNCHANGED <<connFixed, proto, buf, addr, cands, tried, remote, sniffed,
                   udpVars, dispVars, poolVars>>

\* what a read of socket s can return
ReadResults(s) ==
    CASE sock[s] = "shut" -> {[k |-> "eof", n |-> 0]}
      [] sock[s] = "open" ->
            {[k |-> "data", n |-> n] :
                n \in IF reads["local"] + reads["remote"] < MaxReads
                      THEN ReadSizes ELSE {}}
            \cup {[k |-> "eof", n |-> 0], [k |-> "would_block", n |-> 0],
                  [k |-> "err", n |-> 0]}
      [] OTHER -> {[k |-> "err", n |-> 0]}

\* whether write_all on socket s can succeed, can fail
WriteResults(s) == IF sock[s] = "open" THEN {TRUE, FALSE} ELSE {FALSE}

CopyFrom(h) == IF h = "up" THEN "local" ELSE "remote"
CopyTo(h) == IF h = "up" THEN "remote" ELSE "local"

\* copy: one turn of the loop up to the call of reporter, or the exit
copy(h) ==
    /\ half[h] = "read"
    /\ \E out \in ReadResults(CopyFrom(h)) :
        CASE out.k = "eof" ->
                \* break; to.shutdown(Both)
                /\ half' = [half EXCEPT ![h] = "ok"]
                /\ sock' = [sock EXCEPT ![CopyTo(h)] =
                                IF @ = "open" THEN "shut" ELSE @]
                /\ UNCHANGED <<pend, rd, reads, toRemote, toClient>>
          [] out.k = "data" ->
                /\ rd' = [rd EXCEPT ![CopyFrom(h)] = @ + out.n]
                /\ reads' = [reads EXCEPT ![CopyFrom(h)] = @ + 1]
                /\ \E wrote \in WriteResults(CopyTo(h)) :
                    IF wrote
                    THEN /\ half' = [half EXCEPT ![h] = "report"]
                         /\ pend' = [pend EXCEPT ![h] = out.n]
                         /\ IF h = "up"
                            THEN /\ toRemote' = Append(toRemote, [relayed |-> out.n])
                                 /\ UNCHANGED toClient
                            ELSE /\ toClient' = Append(toClient, [relayed |-> out.n])
                                 /\ UNCHANGED toRemote
                         /\ UNCHANGED sock
                    ELSE /\ half' = [half EXCEPT ![h] = "err"]
                         /\ sock' = [sock EXCEPT ![CopyTo(h)] =
                                         IF @ = "open" THEN "broken" ELSE @]
                         /\ UNCHANGED <<pend, toRemote, toClient>>
          [] out.k = "would_block" ->
                UNCHANGED <<half, pend, sock, rd, reads, toRemote, toClient>>
          [] OTHER ->
                /\ half' = [half EXCEPT ![h] = "err"]
                /\ sock' = [sock EXCEPT ![CopyFrom(h)] = "broken"]
                /\ UNCHANGED <<pend, rd, reads, toRemote, toClient>>
    /\ UNCHANGED <<connFixed, pc, bus, proto, buf, addr, dialVars,
                   sniffed, udpVars, dispVars, poolVars>>

\* copy: reporter(n), the Upload / Download of the bytes just written
copy_report(h) ==
    /\ half[h] = "report"
    /\ bus' = Append(bus, Ev(IF h = "up" THEN "Upload" ELSE "Download", pend[h]))
    /\ half' = [half EXCEPT ![h] = "read"]
    /\ pend' = [pend EXCEPT ![h] = 0]
    /\ UNCHANGED <<connFixed, pc, proto, buf, addr, dialVars, sock, rd,
                   reads, toRemote, sniffed, toClient, udpVars, dispVars,
                   poolVars>>

\* tcp_relay after the spawn: copy(remote, local)? runs on this thread and
\* its error returns at once; otherwise handle.join().unwrap()? waits for
\* the spawned copy, then Done
tcp_relay_return ==
    /\ pc = "tcp_relay"
    /\ \/ /\ half["down"] = "err"
          /\ Failed("IoError")
       \/ /\ half["down"] = "ok"
          /\ half["up"] = "err"
          /\ Failed("IoError")
       \/ /\ half["down"] = "ok"
          /\ half["up"] = "ok"
          /\ bus' = Append(bus, Ev("Done", "done"))
          /\ pc' = "returned"
    /\ UNCHANGED <<connFixed, proto, buf, addr, dialVars, relayVars,
                   sniffed, toClient, udpVars, dispVars, poolVars>>

\* ------------------------------------------------------------------------
\* SOCKS5 UDP ASSOCIATE
\* ------------------------------------------------------------------------
ClientUdp == SocketAddr(<<127, 0, 0, 1>>, 5000)
OtherUdp == SocketAddr(<<93, 0, 0, 1>>, 53)
UdpSources == {ClientUdp, OtherUdp}

\* datagrams that can arrive on the UDP socket
D_v4 == <<0, 0, 0, 1, 93, 0, 0, 1, 0, 53, 7, 8>>
D_domain == <<0, 0, 0, 3, 1, 97, 0, 53, 7, 8>>
D_v6 == <<0, 0, 0, 4>> \o Cand6.ip \o <<0, 53, 7>>
D_frag == <<0, 0, 1, 1, 93, 0, 0, 1, 0, 53, 7>>
D_short == <<0, 0, 0, 1, 93, 0, 0, 1, 0>>
D_atyp == <<0, 0, 0, 9, 1, 2, 3, 4, 5, 6>>
D_raw == <<9, 9>>
Datagrams == {D_v4, D_domain, D_v6, D_frag, D_short, D_atyp, D_raw}

\* socks_udp_resolved: bind the UDP socket, Recognized, reply
socks_udp_resolved ==
    /\ pc = "socks_udp_resolved"
    /\ proto' = "Socks5Udp"
    /\ \E peer6, bound, wrote \in BOOLEAN :
        LET r == IpPool_next(IF peer6 THEN ip6 ELSE ip4)
            remote_bind == LocalAddr(r.ans)
        IN  /\ IF peer6
               THEN ip6' = r.pool /\ UNCHANGED ip4
               ELSE ip4' = r.pool /\ UNCHANGED ip6
            /\ IF ~bound                       \* UdpSocket::bind(..)?
               THEN /\ Failed("IoError")
                    /\ UNCHANGED <<remote, toClient>>
               ELSE IF ~wrote                  \* local.write_all(..)?
               THEN /\ bus' = bus \o <<Ev("Recognized", "Socks5Udp"),
                                       Ev("Error", "IoError")>>
                    /\ pc' = "returned"
                    /\ UNCHANGED <<remote, toClient>>
               ELSE /\ bus' = Append(bus, Ev("Recognized", "Socks5Udp"))
                    /\ remote' = Some([local |-> remote_bind, peer |-> remote_bind])
                    /\ toClient' = Append(toClient,
                                          Bytes(build_socks_response(0, remote_bind)))
                    /\ pc' = "socks_udp_relay"
    /\ UNCHANGED <<connFixed, buf, addr, hosts, reach, cands, tried,
                   relayVars, sniffed, udpVars, dispVars, poolLocks>>

\* a test that lets a fragment through
too_short(d, n) == n < 10

\* socks_udp_relay: `n < 10 || buf[2] != 0`, the datagrams of the client
\* that are not relayed
short_or_fragment(d, n) == n < 10 \/ d[3] # 0

\* socks_udp_relay: socket.recv_from(..)? and the rest of the turn; the
\* loop goes on at back.  The datagram comes from one of sources_ and is one
\* of datagrams_.
socks_udp_recv_from(back, sources_, datagrams_) ==
    \/ \* socket.recv_from(..)?
       /\ Failed("IoError")
       /\ UNCHANGED udpVars
    \/ /\ Len(dgrams) < MaxDgrams
       /\ \E d \in datagrams_, src \in sources_, sent \in BOOLEAN :
           LET n == Len(d)
               first == udpLocal.tag = "none"
               local == IF first THEN src ELSE udpLocal.val
               seen == IF first
                       THEN <<Ev("Connected", [bind |-> src.ip,
                                  peer |-> SocketAddr(V4_UNSPECIFIED, 0)])>>
                       ELSE <<>>
               h == socks_prase_host(Slice(d, 3, n))
           IN  /\ dgrams' = Append(dgrams, [data |-> d, src |-> src])
               /\ udpLocal' = Some(local)
               /\ IF src = local
                  THEN IF short_or_fragment(d, n)
                       THEN /\ bus' = bus \o seen             \* continue
                            /\ pc' = back /\ UNCHANGED udpOut
                       ELSE IF h.tag # "some"
                       THEN /\ bus' = bus \o seen
                            /\ pc' = "panicked"               \* unwrap
                            /\ UNCHANGED udpOut
                       ELSE IF sent                           \* send_to(..)?
                       THEN /\ udpOut' = Append(udpOut,
                                    [dir |-> "out", to |-> h.val.addr,
                                     data |-> Slice(d, h.val.d, n),
                                     of |-> Len(dgrams) + 1])
                            /\ bus' = bus \o seen
                            /\ pc' = back
                       ELSE /\ bus' = bus \o seen \o <<Ev("Error", "IoError")>>
                            /\ pc' = "returned"
                            /\ UNCHANGED udpOut
                  ELSE IF sent                                \* send_to(..)?
                       THEN /\ udpOut' = Append(udpOut,
                                    [dir |-> "back",
                                     to |-> [atyp |-> 0, host |-> local.ip,
                                             port |-> local.port],
                                     data |-> build_socks_udp(src, d),
                                     of |-> Len(dgrams) + 1])
                            /\ bus' = bus \o seen
                            /\ pc' = back
                       ELSE /\ bus' = bus \o seen \o <<Ev("Error", "IoError")>>
                            /\ pc' = "returned"
                            /\ UNCHANGED udpOut

\* socks_udp_relay: one turn of the loop, or the exit
socks_udp_relay_from(sources_, datagrams_) ==
    /\ pc = "socks_udp_relay"
    /\ \/ \* ctl.peek(..) is not WouldBlock: break, Done
          /\ bus' = Append(bus, Ev("Done", "done"))
          /\ pc' = "returned"
          /\ UNCHANGED udpVars
       \/ socks_udp_recv_from("socks_udp_relay", sources_, datagrams_)
    /\ UNCHANGED <<connFixed, proto, buf, addr, dialVars, relayVars,
                   sniffed, toClient, dispVars, poolVars>>

socks_udp_relay == socks_udp_relay_from(UdpSources, Datagrams)

Next ==
    \/ handle
    \/ socks_recv
    \/ socks_handle_request
    \/ http_resolved
    \/ https_resolved
    \/ socks_tcp_resolved
    \/ connect
    \/ http_resolved_connect
    \/ https_resolved_connect
    \/ socks_tcp_resolved_connect
    \/ \E h \in Halves : copy(h)
    \/ \E h \in Halves : copy_report(h)
    \/ tcp_relay_return
    \/ socks_udp_resolved
    \/ socks_udp_relay

Spec == Init /\ [][Next]_vars

\* ------------------------------------------------------------------------
\* SpecLookup: lookup_host of handler.rs applied to the answers of the name
\* lookup, under every pool and preference
\* ------------------------------------------------------------------------
MaxAnswer == 3       \* longest answer of the name lookup given to lookup_host

\* two IPv4 and two IPv6 addresses a name can resolve to
LookupCands ==
    {Cand4, SocketAddr(<<93, 0, 0, 2>>, 80),
     Cand6, SocketAddr(<<38, 6>> \o Zeros(13) \o <<2>>, 80)}

\* the pools of a routing: no address, one family only, both families
LookupPools == {<<v4, v6>> : v4 \in {<<>>, <<V4a>>}, v6 \in {<<>>, <<V6a>>}}

\* addr.to_socket_addrs(): Err, or the addresses in the order of the OS
LookupAnswers == {None} \cup {Some(l) : l \in SeqsUpTo(LookupCands, MaxAnswer)}

InitLookup ==
    /\ id = 1
    /\ \E p \in LookupPools : HandlerConfig_new(p[1], p[2])
    /\ cfg \in [ipv6_first : Preferences]
    /\ HandlerIdle
    /\ clientSent = <<>>
    /\ answer \in LookupAnswers
    /\ PoolIdle
    /\ DispIdle

\* let hosts = match lookup_host(&addr, cfg) { Ok(hosts) => hosts, Err(e) => .. }
lookup_host_match ==
    /\ pc = "accepted"
    /\ LET r == lookup_host(answer)
       IN  IF r.tag = "none"
           THEN /\ pc' = "lookup_err"
                /\ UNCHANGED <<hosts, cands>>
           ELSE /\ pc' = "lookup_ok"
                /\ hosts' = r.val
                /\ cands' = r.val
    /\ UNCHANGED <<connFixed, bus, proto, buf, addr, reach, tried, remote,
                   relayVars, sniffed, toClient, udpVars, dispVars, poolVars>>

SpecLookup == InitLookup /\ [][lookup_host_match]_vars

\* ------------------------------------------------------------------------
\* SpecSniff: the first read of handler.rs and socks_recv, with the bytes the
\* client sent kept next to what the read returned
\* ------------------------------------------------------------------------
\* what a SOCKS5 client sends first: 05 NMETHODS METHODS, alone or with bytes
\* sent after it before the handler's first read
Greetings ==
    { <<5, 1, 0>>,                  \* no authentication
      <<5, 1, 2>>,                  \* username / password only
      <<5, 2, 2, 0>>,               \* both
      <<5, 2, 1, 2>>,               \* GSSAPI, username / password
      <<5, 3, 0, 1, 2>>,
      <<5, 0>>,                     \* no method at all
      <<5, 1, 2, 0>>,               \* one method, and one more byte
      <<5, 1, 2, 1, 1, 97, 0>> }    \* one method, and the sub-negotiation

\* local.read(&mut buf): Ok(k) with the first k bytes of what was sent
SniffReads(sentBytes) ==
    {ByteRead(SubSeq(sentBytes, 1, k)) : k \in 1..Len(sentBytes)}

InitSniff ==
    /\ id = 1
    /\ \E p \in ConnPools : HandlerConfig_new(p[1], p[2])
    /\ cfg \in [ipv6_first : Preferences]
    /\ HandlerIdle
    /\ clientSent \in Greetings
    /\ answer = None
    /\ PoolIdle
    /\ DispIdle

NextSniff ==
    \/ handle_from(SniffReads(clientSent), Tails)
    \/ socks_recv
    \/ socks_handle_request

SpecSniff == InitSniff /\ [][NextSniff]_vars

\* ------------------------------------------------------------------------
\* SpecHandle: one connection served by handle.rs
\* ------------------------------------------------------------------------
\* what local.peek can return
HandleReads ==
    { TextRead(<<T_GET, T_slash, T_ver, T_Host, T_name>>),
      TextRead(<<T_GET>>),
      TextRead(<<T_GET, T_slash, T_ver>>),                  \* no Host: header
      TextRead(<<T_CONNECT, T_name, T_ver, T_Host, T_name>>),
      TextRead(<<T_CONNECT, T_v6_443, T_ver, T_Host, T_v6_443>>) }

\* what the attempt on a candidate meets: Socket::new fails, bind fails,
\* connect_timeout returns Ok, Err(TimedOut), or another Err
HandleOutcomes == {"ok", "socket_err", "bind_err", "connect_err", "connect_timeout"}

\* hosts.sort_by(..): a stable sort that puts IPv6 first when ipv6_first and
\* IPv4 first when not
handle_sort_by(s, ipv6_first) ==
    LET V4(a) == is_ipv4(a.ip)
        V6(a) == is_ipv6(a.ip)
    IN  IF ipv6_first THEN SelectSeq(s, V6) \o SelectSeq(s, V4)
        ELSE SelectSeq(s, V4) \o SelectSeq(s, V6)

InitHandle ==
    /\ id = 1
    /\ \E p \in ConnPools : HandlerConfig_new(p[1], p[2])
    /\ cfg \in [ipv6_first : Preferences]
    /\ ConnIdle
    /\ PoolIdle
    /\ DispIdle

\* an event, then local.write_all(reply)?, then return Ok(()): the write's
\* Err goes to the wrapper in handle, which sends an Error of its own
AnswerAndReturn(events, reply) ==
    /\ pc' = "returned"
    /\ \E wrote \in BOOLEAN :
        IF wrote
        THEN /\ toClient' = Append(toClient, Text(reply))
             /\ bus' = bus \o events
        ELSE /\ UNCHANGED toClient
             /\ bus' = bus \o events \o <<Ev("Error", "IoError")>>

\* inner_handle up to Resolved: Received, peek, the Host: header, the read
\* that consumes a CONNECT request
inner_handle_peek ==
    /\ pc = "accepted"
    /\ \/ /\ bus' = bus \o <<Ev("Received", "peer"), Ev("Error", "IoError")>>
          /\ pc' = "returned"                       \* peek(..)?
          /\ UNCHANGED <<buf, sniffed, addr, proto, toClient, rd>>
       \/ \E r \in HandleReads :
          LET uri == nth1(skip_while_not_host(Tail(r.toks)))
              target == IF NeedsPort80(uri.val)
                        THEN uri.val \o <<":", "8", "0">> ELSE uri.val
              is_https == eq_ignore_ascii_case(r.toks[1], T_CONNECT)
          IN  /\ buf' = r
              /\ sniffed' = r.n
              /\ IF uri.tag = "none"
                 THEN /\ AnswerAndReturn(<<Ev("Received", "peer"),
                                          Ev("Error", "No host in")>>, HTTP_400)
                      /\ UNCHANGED <<addr, proto, rd>>
                 ELSE /\ addr' = Some(TextAddr(target))
                      /\ UNCHANGED toClient
                      /\ IF is_https
                         THEN \E consumed_ \in BOOLEAN :    \* local.read(..)?
                              IF consumed_
                              THEN /\ proto' = "Https"
                                   /\ rd' = [rd EXCEPT !["local"] = r.n]
                                   /\ bus' = bus \o <<Ev("Received", "peer"),
                                                      Ev("Resolved", target)>>
                                   /\ pc' = "lookup"
                              ELSE /\ bus' = bus \o <<Ev("Received", "peer"),
                                                      Ev("Error", "IoError")>>
                                   /\ pc' = "returned"
                                   /\ UNCHANGED <<proto, rd>>
                         ELSE /\ proto' = "Http"
                              /\ bus' = bus \o <<Ev("Received", "peer"),
                                                 Ev("Resolved", target)>>
                              /\ pc' = "lookup"
                              /\ UNCHANGED rd
    /\ UNCHANGED <<connFixed, dialVars, half, pend, sock, reads, toRemote,
                   udpVars, dispVars, poolVars>>

\* inner_handle: to_socket_addrs and the sort by preference
inner_handle_lookup ==
    /\ pc = "lookup"
    /\ \E res \in to_socket_addrs(addr.val) :
        IF res.tag = "none"
        THEN /\ AnswerAndReturn(<<Ev("Error", "DNS fail")>>, HTTP_404)
             /\ UNCHANGED <<hosts, cands, reach>>
        ELSE LET hs == IF cfg.ipv6_first.tag = "some"
                       THEN handle_sort_by(res.val, cfg.ipv6_first.val)
                       ELSE res.val
             IN  /\ hosts' = hs
                 /\ cands' = hs
                 /\ reach' \in [1..Len(hs) -> HandleOutcomes]
                 /\ pc' = "dial"
                 /\ UNCHANGED <<bus, toClient>>
    /\ UNCHANGED <<connFixed, proto, buf, addr, tried, remote, relayVars,
                   sniffed, udpVars, dispVars, poolVars>>

\* inner_handle: one iteration of the loop over hosts, or the match after it
inner_handle_dial ==
    /\ pc = "dial"
    /\ IF hosts = <<>>
       THEN /\ AnswerAndReturn(<<Ev("Error", "Fail to connect")>>, HTTP_500)
            /\ UNCHANGED <<hosts, reach, tried, remote, ip4, ip6>>
       ELSE LET host == Head(hosts)
                o == Head(reach)
                r == IpPool_next(IF is_ipv4(host.ip) THEN ip4 ELSE ip6)
            IN  /\ IF is_ipv4(host.ip)
                   THEN ip4' = r.pool /\ UNCHANGED ip6
                   ELSE ip6' = r.pool /\ UNCHANGED ip4
                /\ tried' = Append(tried, o)
                /\ hosts' = Tail(hosts)
                /\ reach' = Tail(reach)
                /\ CASE o = "socket_err" ->             \* Socket::new(..)?
                            /\ Failed("IoError")
                            /\ UNCHANGED <<remote, toClient>>
                     [] o = "ok" ->
                            /\ remote' = Some([local |-> LocalAddr(r.ans),
                                               peer |-> host])
                            /\ pc' = "connected"
                            /\ UNCHANGED <<bus, toClient>>
                     [] o = "connect_timeout" ->
                            /\ AnswerAndReturn(<<Ev("Error", "Timeout")>>, "HTTP/1.1 504 Gateway Time-out\r\n\r\n")
                            /\ UNCHANGED remote
                     [] OTHER ->                        \* bind fails, other Err
                            /\ bus' = Append(bus, Ev("Retry", "retry"))
                            /\ UNCHANGED <<pc, remote, toClient>>
    /\ UNCHANGED <<connFixed, proto, buf, addr, cands, relayVars, sniffed,
                   udpVars, dispVars, poolLocks>>

\* inner_handle: Connected, the answer to CONNECT, the spawn of the copies
inner_handle_connected ==
    /\ pc = "connected"
    /\ LET connected == Ev("Connected", [bind |-> remote.val.local.ip,
                                         peer |-> remote.val.peer])
       IN  \E wrote \in IF proto = "Https" THEN BOOLEAN ELSE {TRUE} :
           IF wrote
           THEN /\ bus' = Append(bus, connected)
                /\ toClient' = IF proto = "Https"
                               THEN Append(toClient, Text("HTTP/1.1 200 OK\r\n\r\n"))
                               ELSE toClient
                /\ half' = [h \in Halves |-> "read"]
                /\ sock' = [sock EXCEPT !["remote"] = "open"]
                /\ pc' = "relay"
           ELSE /\ bus' = bus \o <<connected, Ev("Error", "IoError")>>
                /\ pc' = "returned"
                /\ UNCHANGED <<toClient, half, sock>>
    /\ UNCHANGED <<connFixed, proto, buf, addr, dialVars, pend, rd, reads,
                   toRemote, sniffed, udpVars, dispVars, poolVars>>

\* copy_up (h = "up") / copy_down (h = "down"): one iteration of the loop
handle_copy(h) ==
    /\ pc = "relay"
    /\ half[h] = "read"
    /\ \E out \in ReadResults(CopyFrom(h)) :
        CASE out.k = "eof" ->
                /\ half' = [half EXCEPT ![h] = "ok"]
                /\ UNCHANGED <<bus, sock, rd, reads, toRemote, toClient>>
          [] out.k = "data" ->
                \* the event is sent before the write
                /\ bus' = Append(bus, Ev(IF h = "up" THEN "Upload" ELSE "Download",
                                         out.n))
                /\ rd' = [rd EXCEPT ![CopyFrom(h)] = @ + out.n]
                /\ reads' = [reads EXCEPT ![CopyFrom(h)] = @ + 1]
                /\ \E wrote \in WriteResults(CopyTo(h)) :
                    IF wrote
                    THEN /\ IF h = "up"
                            THEN /\ toRemote' = Append(toRemote, [relayed |-> out.n])
                                 /\ UNCHANGED toClient
                            ELSE /\ toClient' = Append(toClient, [relayed |-> out.n])
                                 /\ UNCHANGED toRemote
                         /\ UNCHANGED <<half, sock>>
                    ELSE /\ half' = [half EXCEPT ![h] = "err"]
                         /\ sock' = [sock EXCEPT ![CopyTo(h)] =
                                         IF @ = "open" THEN "broken" ELSE @]
                         /\ UNCHANGED <<toRemote, toClient>>
          [] out.k = "would_block" ->               \* TimedOut | WouldBlock
                /\ half' = [half EXCEPT ![h] = "ok"]
                /\ bus' = IF h = "down"
                          THEN Append(bus, Ev("Error", "IO timeout")) ELSE bus
                /\ UNCHANGED <<sock, rd, reads, toRemote, toClient>>
          [] OTHER ->
                /\ half' = [half EXCEPT ![h] = "err"]
                /\ sock' = [sock EXCEPT ![CopyFrom(h)] = "broken"]
                /\ UNCHANGED <<bus, rd, reads, toRemote, toClient>>
    /\ UNCHANGED <<connFixed, pc, proto, buf, addr, dialVars, pend,
                   sniffed, udpVars, dispVars, poolVars>>

\* inner_handle: up.join().and(down.join()).unwrap(), which is the result of
\* copy_down when the upload thread did not panic
inner_handle_join ==
    /\ pc = "relay"
    /\ \A h \in Halves : half[h] \in {"ok", "err"}
    /\ bus' = Append(bus, IF half["down"] = "ok"
                          THEN Ev("Done", "done") ELSE Ev("Error", "IoError"))
    /\ pc' = "returned"
    /\ UNCHANGED <<connFixed, proto, buf, addr, dialVars, relayVars, sniffed,
                   toClient, udpVars, dispVars, poolVars>>

NextHandle ==
    \/ inner_handle_peek
    \/ inner_handle_lookup
    \/ inner_handle_dial
    \/ inner_handle_connected
    \/ handle_copy("up")
    \/ handle_copy("down")
    \/ inner_handle_join

SpecHandle == InitHandle /\ [][NextHandle]_vars

\* ------------------------------------------------------------------------
\* SpecSummary: the Summary of drawer.rs fed by the consumer thread of
\* drawer::init, and the lookups of summary.rs
\* ------------------------------------------------------------------------
MaxEvents == 3       \* events the consumer thread takes from the channel

Groups == {1, 2}                     \* groups that connections belong to
LookupGroups == {1, 2, 3}            \* groups a client asks for

\* what the channel delivers, (id, group, event): the events of connections
\* and the periodic tick with id 0
SummaryEvents ==
    {[id |-> i, group |-> g, ev |-> k, n |-> n] :
        i \in {1}, g \in Groups, k \in {"Upload", "Download"}, n \in {1, 2}}
    \cup {[id |-> i, group |-> g, ev |-> k, n |-> 0] :
        i \in {1}, g \in Groups, k \in {"Received", "Recognized", "Done"}}
    \cup {[id |-> 0, group |-> 1, ev |-> "Done", n |-> 0]}

\* BTreeMap::entry(key).or_default() followed by an assignment, and insert
Put(map, key, val) ==
    [x \in DOMAIN map \cup {key} |-> IF x = key THEN val ELSE map[x]]

\* BTreeMap::get(key).copied().unwrap_or(default)
GetOr(map, key, default) == IF key \in DOMAIN map THEN map[key] ELSE default

\* the counter with n added to the other direction
AddUploadAsDownload(counter, n) == <<counter[1], counter[2] + n>>

\* entry(group).or_default().0 += n / .1 += n
AddUpload(counter, n) == <<counter[1] + n, counter[2]>>
AddDownload(counter, n) == <<counter[1], counter[2] + n>>

\* the first match of Summary::update
count_bits(e) ==
    CASE e.ev = "Upload" ->
            Put(bit_counter, e.group,
                AddUpload(GetOr(bit_counter, e.group, <<0, 0>>), e.n))
      [] e.ev = "Download" ->
            Put(bit_counter, e.group,
                AddDownload(GetOr(bit_counter, e.group, <<0, 0>>), e.n))
      [] OTHER -> bit_counter

\* Summary::lookup_group
lookup_group(group) ==
    IF group \in DOMAIN bit_counter THEN Some(bit_counter[group]) ELSE None

\* the jobs in state Done or Error
Finished == {j \in DOMAIN jobs : jobs[j].state \in {"Done", "Error"}}

InitSummary ==
    /\ id = 1
    /\ \E p \in {<<<<>>, <<>>>>} : HandlerConfig_new(p[1], p[2])
    /\ cfg = [ipv6_first |-> None]
    /\ ConnIdle                 \* pc: the consumer thread is in its loop
    /\ PoolIdle
    /\ DispIdle

\* the body of the consumer loop of drawer::init: SUMMARY.lock(), update,
\* for an event of events_.  The uri and addon of a job are not kept, so
\* Resolved and Retry leave the job as it is.
update_from(events_) ==
    /\ pc = "accepted"
    /\ Len(consumed) < MaxEvents
    /\ \E e \in events_ :
        /\ consumed' = Append(consumed, e)
        /\ bit_counter' = count_bits(e)
        /\ IF e.id # 0
           THEN IF e.ev = "Received"
                THEN /\ jobs' = Put(jobs, e.id, [group |-> e.group,
                                                 state |-> "Waiting",
                                                 upload |-> 0, download |-> 0])
                     /\ UNCHANGED pc
                ELSE IF e.id \notin DOMAIN jobs
                THEN UNCHANGED <<jobs, pc>>          \* Vacant: return
                ELSE CASE e.ev = "Done" ->
                            /\ jobs' = [jobs EXCEPT ![e.id].state = "Done"]
                            /\ UNCHANGED pc
                       [] e.ev = "Upload" ->
                            /\ jobs' = [jobs EXCEPT ![e.id].upload = @ + e.n]
                            /\ UNCHANGED pc
                       [] e.ev = "Download" ->
                            /\ jobs' = [jobs EXCEPT ![e.id].download = @ + e.n]
                            /\ UNCHANGED pc
                       [] e.ev = "Connected" ->
                            /\ jobs' = [jobs EXCEPT ![e.id].state = "Connected"]
                            /\ UNCHANGED pc
                       [] e.ev = "Error" ->
                            /\ jobs' = [jobs EXCEPT ![e.id].state = "Error"]
                            /\ UNCHANGED pc
                       [] e.ev \in {"Resolved", "Retry"} ->
                            UNCHANGED <<jobs, pc>>
                       [] OTHER ->                   \* unreachable!() under the lock
                            /\ pc' = "panicked"
                            /\ UNCHANGED jobs
           ELSE \* the purge: a finished job stays while its last update is
                \* less than KEEP_AFTER_DONE old
                /\ \E kept \in SUBSET Finished :
                      jobs' = [j \in (DOMAIN jobs \ Finished) \cup kept |-> jobs[j]]
                /\ UNCHANGED pc
    /\ UNCHANGED <<id, cfg, envVars, bus, proto, buf, addr, dialVars,
                   relayVars, sniffed, toClient, udpVars, dispVars, poolVars>>

update == update_from(SummaryEvents)

\* summary.rs handle: read the group, SUMMARY.lock().unwrap(), lookup_group,
\* write the totals into answer, the last reply of the server; the unwrap
\* panics when the consumer thread panicked while it held the lock
summary_handle ==
    /\ \E group \in LookupGroups :
        IF pc = "panicked"
        THEN answer' = Panic
        ELSE LET found == lookup_group(group)
                 totals == IF found.tag = "some" THEN found.val ELSE <<0, 0>>
             IN  answer' = Some([group |-> group,
                                 ul |-> totals[1],
                                 dl |-> totals[2],
                                 at |-> Len(consumed)])
    /\ UNCHANGED <<id, cfg, clientSent, sumVars, pc, bus, proto, buf, addr,
                   dialVars, relayVars, sniffed, toClient, udpVars, dispVars,
                   poolVars>>

NextSummary ==
    \/ update
    \/ summary_handle

SpecSummary == InitSummary /\ [][NextSummary]_vars


\* ------------------------------------------------------------------------
\* The consumer thread fed with the events of handlers (drawer.rs, init and
\* Summary::update)
\* ------------------------------------------------------------------------
\* every kind of event a handler sends, for two connections
HandlerEvents ==
    {[id |-> i, group |-> 1, ev |-> k, n |-> IF k \in {"Upload", "Download"} THEN 1 ELSE 0] :
        i \in {1, 2},
        k \in {"Received", "Recognized", "Resolved", "Connected", "Upload",
               "Download", "Retry", "Done", "Error"}}

SpecConsumer == InitSummary /\ [][update_from(HandlerEvents)]_vars
\* ------------------------------------------------------------------------
\* SpecClassify: the first read of handler.rs and the sniff, over openings
\* of every kind and over what the unwritten tail of the buffer can hold
\* ------------------------------------------------------------------------
T_host_lc == <<"h", "o", "s", "t", ":">>
T_b == <<"b", ".", "t">>

\* "GET / HTTP/1.1\r\n" followed by the byte FE: valid UTF-8 in its first 16
\* bytes, not after
LateInvalid ==
    [text |-> FALSE,
     toks |-> <<T_GET, T_slash, T_ver, T_junk>>,
     bytes |-> <<71, 69, 84, 32, 47, 32, 72, 84, 84, 80, 47, 49, 46, 49, 13, 10, 254>>,
     n |-> 17]

\* what the first read can return
Openings ==
    FirstReads \cup
    { LateInvalid,
      ByteRead(<<71, 69, 254>>),                            \* invalid at once
      ByteRead(<<5, 254, 254>>),                            \* 05, not text
      TextRead(<<T_GET, T_slash, T_ver>>),                  \* no Host: header
      TextRead(<<T_GET, T_slash, T_ver, T_host_lc, T_name>>),
      TextRead(<<T_GET, T_slash, T_ver, T_Host, T_v6>>),    \* bracketed
      TextRead(<<T_GET, T_slash, T_ver, T_Host, T_name, T_Host, T_b>>),
      TextRead(<<T_CONNECT, T_v6_443, T_ver>>),
      TextRead(<<T_CONNECT, T_name>>) }

\* what the tail of the buffer past the n bytes read can hold: the buffer is
\* allocated without being written (set_len), so it holds what the memory
\* held before, such as the end of an earlier request
StaleTails == Tails \cup {<<T_Host, T_b>>}

InitClassify ==
    /\ id = 1
    /\ \E p \in ConnPools : HandlerConfig_new(p[1], p[2])
    /\ cfg \in [ipv6_first : Preferences]
    /\ ConnIdle
    /\ PoolIdle
    /\ DispIdle

SpecClassify == InitClassify /\ [][handle_from(Openings, StaleTails)]_vars


\* ------------------------------------------------------------------------
\* The TCP relay under fair scheduling (handler.rs, tcp_relay and copy)
\* ------------------------------------------------------------------------
\* Both copy threads are scheduled, and a system call that can return does:
\* a read of a socket that was shut down or has failed returns at once, the
\* send on the unbounded channel returns, the join returns once the thread
\* has ended.  A read of an open socket blocks for as long as the peer is
\* silent (handler.rs sets no timeout), so no fairness is put on it.  The
\* leading conjuncts repeat what the action itself sets.
RelayFairness ==
    /\ \A h \in Halves : WF_vars(copy(h) /\ sock[CopyFrom(h)] # "open")
    /\ \A h \in Halves : WF_vars(pc' = pc /\ copy_report(h))
    /\ WF_vars(pc' = "returned" /\ tcp_relay_return)

SpecRelay == Spec /\ RelayFairness

\* ------------------------------------------------------------------------
\* The UDP relay loop with its two system calls apart (handler.rs,
\* socks_udp_relay)
\* ------------------------------------------------------------------------
\* the client writes on the control connection or closes it: from now on
\* ctl.peek(..) returns something other than WouldBlock
ctl_readable ==
    /\ pc \in {"socks_udp_relay", "socks_udp_recv_from"}
    /\ sock["local"] = "open"
    /\ sock' = [sock EXCEPT !["local"] = "readable"]
    /\ UNCHANGED <<connFixed, pc, bus, proto, buf, addr, dialVars, half,
                   pend, rd, reads, toRemote, sniffed, toClient, udpVars,
                   dispVars, poolVars>>

\* socks_udp_relay: ctl.peek(&mut [0]) on the non-blocking control
\* connection; WouldBlock goes on to recv_from, anything else breaks
socks_udp_peek ==
    /\ pc = "socks_udp_relay"
    /\ IF sock["local"] = "open"
       THEN /\ pc' = "socks_udp_recv_from"
            /\ UNCHANGED bus
       ELSE /\ pc' = "returned"
            /\ bus' = Append(bus, Ev("Done", "done"))
    /\ UNCHANGED <<connFixed, proto, buf, addr, dialVars, relayVars,
                   sniffed, toClient, udpVars, dispVars, poolVars>>

\* socks_udp_relay: socket.recv_from(&mut buf) returns, with a datagram or
\* an error, and the turn is finished; the socket has no timeout, so
\* without a datagram the call does not return
socks_udp_turn ==
    /\ pc = "socks_udp_recv_from"
    /\ socks_udp_recv_from("socks_udp_relay", UdpSources, Datagrams)
    /\ UNCHANGED <<connFixed, proto, buf, addr, dialVars, relayVars,
                   sniffed, toClient, dispVars, poolVars>>

\* the handler's thread is scheduled and the non-blocking peek returns;
\* nothing makes a datagram arrive
SpecUdp ==
    /\ Init
    /\ [][\/ handle
          \/ socks_recv
          \/ socks_handle_request
          \/ socks_udp_resolved
          \/ ctl_readable
          \/ socks_udp_peek
          \/ socks_udp_turn]_vars
    /\ WF_vars(socks_udp_peek)

\* ------------------------------------------------------------------------
\* A UDP association with peers of both families (handler.rs,
\* socks_udp_resolved and socks_udp_relay)
\* ------------------------------------------------------------------------
Other6Udp == SocketAddr(Cand6.ip, 5353)
AssocSources == UdpSources \cup {Other6Udp}
AssocDatagrams == {D_v4, D_frag, D_short, D_raw}

\* the client opens with the SOCKS5 greeting; nothing of the buffer's tail
\* is looked at on this path
AssocReads == {ByteRead(<<5, 1, 0>>)}
AssocTails == {<<>>}

SpecAssoc ==
    /\ Init
    /\ [][\/ handle_from(AssocReads, AssocTails)
          \/ socks_recv
          \/ socks_handle_request
          \/ socks_udp_resolved
          \/ socks_udp_relay_from(AssocSources, AssocDatagrams)]_vars

\* ------------------------------------------------------------------------
\* The TCP relay on a bus whose receiver can be gone (handler.rs, copy)
\* ------------------------------------------------------------------------
\* copy: reporter(n)?, where reporter is reporter.send(..).map_err(..): the
\* send fails once the receiver of the channel has been dropped (the
\* consumer's loop has ended or its thread has panicked), and `?` returns
\* the failure from copy
copy_reporter(h) ==
    /\ half[h] = "report"
    /\ \E delivered \in BOOLEAN :
        IF delivered
        THEN /\ bus' = Append(bus, Ev(IF h = "up" THEN "Upload" ELSE "Download",
                                      pend[h]))
             /\ half' = [half EXCEPT ![h] = "read"]
        ELSE /\ bus' = bus
             /\ half' = [half EXCEPT ![h] = "err"]
    /\ pend' = [pend EXCEPT ![h] = 0]
    /\ UNCHANGED <<connFixed, pc, proto, buf, addr, dialVars, sock, rd,
                   reads, toRemote, sniffed, toClient, udpVars, dispVars,
                   poolVars>>

SpecBus ==
    /\ Init
    /\ [][\/ handle
          \/ http_resolved
          \/ https_resolved
          \/ connect
          \/ http_resolved_connect
          \/ https_resolved_connect
          \/ \E h \in Halves : copy(h)
          \/ \E h \in Halves : copy_reporter(h)
          \/ tcp_relay_return]_vars
\* ------------------------------------------------------------------------
\* Reading the event bus
\* ------------------------------------------------------------------------
\* positions of the events of kind k sent with the id of the connection
At(k) == {i \in 1..Len(bus) : bus[i].id = id /\ bus[i].ev = k}
Count(k) == Cardinality(At(k))
Terminals == At("Done") \cup At("Error")

\* every event of kind k has an event of kind before earlier on the bus
Precedes(before, k) == \A j \in At(k) : \E i \in At(before) : i < j

\* sum of N over the Upload(N) / Download(N) events
RECURSIVE SumOf(_, _)
SumOf(k, n) ==
    IF n = 0 THEN 0
    ELSE (IF bus[n].id = id /\ bus[n].ev = k THEN bus[n].arg ELSE 0) + SumOf(k, n - 1)
Total(k) == SumOf(k, Len(bus))

\* ------------------------------------------------------------------------
\* C1: for every connection id, on every handler path, the first event is
\* Received, Recognized precedes Resolved, Resolved precedes Connected and
\* Connected precedes any Upload or Download.
\* As stated the claim fails on the SOCKS5 UDP path, where Connected is sent
\* without any Resolved (C1_EventOrder); amended: Resolved precedes
\* Connected on the HTTP, CONNECT and SOCKS5 TCP paths, and on the SOCKS5
\* UDP path no Resolved is sent and Recognized precedes Connected
\* (C1_EventOrderAmended).
\* ------------------------------------------------------------------------
\* C1 as stated: Resolved precedes Connected on every path
C1_EventOrder ==
    /\ bus # <<>> => bus[1].ev = "Received"
    /\ Precedes("Recognized", "Resolved")
    /\ Precedes("Resolved", "Connected")
    /\ Precedes("Connected", "Upload")
    /\ Precedes("Connected", "Download")

\* C1 amended: on the SOCKS5 UDP path no Resolved is sent and Recognized
\* precedes Connected; elsewhere Resolved precedes Connected
C1_EventOrderAmended ==
    /\ bus # <<>> => bus[1].ev = "Received"
    /\ Precedes("Recognized", "Resolved")
    /\ IF proto = "Socks5Udp"
       THEN Count("Resolved") = 0 /\ Precedes("Recognized", "Connected")
       ELSE Precedes("Resolved", "Connected")
    /\ Precedes("Connected", "Upload")
    /\ Precedes("Connected", "Download")

\* a UDP association has learned its client, and sent Connected
C1_Witness ==
    /\ proto = "Socks5Udp"
    /\ Count("Connected") = 1
    /\ udpOut # <<>>

\* ------------------------------------------------------------------------
\* C2: every connection for which Received was sent ends with exactly one
\* terminal event (Done or Error), never zero and never two, on every
\* path, SOCKS5 commands other than 01/03 included.
\* ------------------------------------------------------------------------
C2_ExactlyOneTerminal ==
    (pc = "returned" /\ Count("Received") > 0) => Cardinality(Terminals) = 1

\* ------------------------------------------------------------------------
\* C3: once a terminal event for an id is on the bus no further event with
\* that id is sent, in any interleaving of the two relay halves.
\* ------------------------------------------------------------------------
C3_NothingAfterTerminal ==
    \A i \in Terminals : \A j \in 1..Len(bus) : bus[j].id = id => j <= i

\* ------------------------------------------------------------------------
\* C4: connection ids are unique process-wide, nonzero and strictly
\* increasing in accept order, for any interleaving of accepts on any
\* number of listener workers sharing the counter; id 0 is never given to
\* a connection.
\* As stated the claim fails when two workers hold a stream each and the
\* later accept takes the lock first (C4_IdsInAcceptOrder); amended: the
\* ids are nonzero, unique and strictly increasing in the order in which
\* the workers take the lock of the counter, which is the accept order
\* within each listener worker (C4_IdsUniqueNonzeroIncreasing).
\* ------------------------------------------------------------------------
IdsNonzeroUnique ==
    /\ \A i \in 1..Len(spawned) : spawned[i].id # 0
    /\ \A i, j \in 1..Len(spawned) : i # j => spawned[i].id # spawned[j].id

\* C4 as stated: ids nonzero, unique, increasing in accept order
C4_IdsInAcceptOrder ==
    /\ IdsNonzeroUnique
    /\ \A i, j \in 1..Len(spawned) :
        spawned[i].accept < spawned[j].accept => spawned[i].id < spawned[j].id

\* C4 amended: ids nonzero, unique, increasing in lock order, and in accept
\* order within one worker
C4_IdsUniqueNonzeroIncreasing ==
    /\ IdsNonzeroUnique
    /\ \A i, j \in 1..Len(spawned) : i < j => spawned[i].id < spawned[j].id
    /\ \A i, j \in 1..Len(spawned) :
        (spawned[i].worker = spawned[j].worker
         /\ spawned[i].accept < spawned[j].accept)
            => spawned[i].id < spawned[j].id

\* two workers were given ids in the reverse of their accepts, and one of
\* them has been given a second id
C4_Witness ==
    /\ Len(spawned) >= 3
    /\ \E i, j \in 1..Len(spawned) :
        /\ spawned[i].worker # spawned[j].worker
        /\ spawned[i].accept < spawned[j].accept
        /\ spawned[j].id < spawned[i].id
    /\ \E i, j \in 1..Len(spawned) :
        i # j /\ spawned[i].worker = spawned[j].worker

\* ------------------------------------------------------------------------
\* C5: with a sequence of length L > 0 the k-th call of next for a family,
\* in lock order, returns element (k-1) mod L; with L = 0 every call
\* returns the unspecified address of the family.
\* ------------------------------------------------------------------------
RoundRobin(p, log) ==
    \A k \in 1..Len(log) :
        IF Len(p.val) > 0
        THEN log[k] = p.val[((k - 1) % Len(p.val)) + 1]
        ELSE log[k] = p.default

\* C5: both families are served round-robin in lock order, the empty
\* family with its unspecified address
C5_RoundRobin ==
    /\ RoundRobin(ip4, log4)
    /\ RoundRobin(ip6, log6)
    /\ ip4.default = V4_UNSPECIFIED
    /\ ip6.default = V6_UNSPECIFIED

\* a pool of two addresses has wrapped around, an empty one has been asked
C5_Witness ==
    /\ Len(ip4.val) = 2
    /\ Len(log4) >= 3
    /\ Len(ip6.val) = 0
    /\ Len(log6) >= 1

\* ------------------------------------------------------------------------
\* C6: for a connection that goes through the TCP relay the Upload events
\* sum to the bytes read from the client socket and the Download events to
\* the bytes read from the upstream socket; on the plain HTTP path the
\* request bytes forwarded to the upstream are counted in Upload.
\* Stated for a relay whose two halves ended by EOF, so that no read is
\* left unreported.
\* ------------------------------------------------------------------------
C6_TotalsMatchReads ==
    (half["up"] = "ok" /\ half["down"] = "ok") =>
        /\ Total("Download") = rd["remote"]
        /\ Total("Upload") = rd["local"] + (IF proto = "Http" THEN sniffed ELSE 0)
        /\ proto = "Http" => Total("Upload") >= sniffed

\* ------------------------------------------------------------------------
\* C7: in a UDP association, for a datagram from the client side with
\* header 00 00 00 ATYP ADDR PORT and payload P, the datagram sent to the
\* decoded destination is exactly P, with none of the header bytes.
\* ------------------------------------------------------------------------
\* length of the SOCKS5 UDP header of datagram d (RFC 1928, section 7)
UdpHeaderLen(d) ==
    CASE d[4] = 1 -> 10
      [] d[4] = 4 -> 22
      [] OTHER -> 7 + d[5]

\* C7: what is sent to the destination is the datagram without its header
C7_PayloadOnly ==
    \A k \in 1..Len(udpOut) :
        udpOut[k].dir = "out" =>
            LET d == dgrams[udpOut[k].of].data
            IN  udpOut[k].data = SubSeq(d, UdpHeaderLen(d) + 1, Len(d))

\* ------------------------------------------------------------------------
\* C8: for a list of K candidates of which the first K-1 are unreachable
\* (bind failure, connect error or connect timeout) and the last is
\* reachable, the handler sends Retry exactly K-1 times, then Connected,
\* and no Error.
\* ------------------------------------------------------------------------
\* what the network answers for each candidate of the list, in order
Answers == tried \o reach

FirstReachableIsLast ==
    /\ cands # <<>>
    /\ Len(Answers) = Len(cands)
    /\ Answers[Len(cands)] = "ok"
    /\ \A i \in 1..(Len(cands) - 1) : Answers[i] # "ok"

\* C8: K-1 Retry events, then the connection, and no Error
C8_RetriesThenConnected ==
    FirstReachableIsLast =>
        /\ Count("Error") = 0
        /\ pc # "connect" => (pc = "connect_ok" /\ Count("Retry") = Len(cands) - 1)

\* ------------------------------------------------------------------------
\* C9: when every candidate fails to connect the handler sends one Retry
\* per candidate, then Error for all hosts unreachable; the client gets
\* HTTP/1.1 500 on the HTTP and CONNECT paths, a SOCKS5 reply with REP 04
\* on the SOCKS5 path; no Connected is sent.
\* ------------------------------------------------------------------------
AllFailToConnect ==
    /\ cands # <<>>
    /\ Len(tried) = Len(cands)
    /\ \A i \in 1..Len(tried) : tried[i] = "connect_err"

\* C9: K Retry events, then the Error, the failure reply, no Connected
C9_AllUnreachable ==
    (pc = "returned" /\ AllFailToConnect) =>
        LET K == Len(cands)
            n == Len(bus)
        IN  /\ Count("Retry") = K
            /\ Count("Connected") = 0
            /\ Count("Error") = 1
            /\ n > K
            /\ bus[n].ev = "Error"
            /\ bus[n].arg = "Failed to connect: IoError(Custom { kind: HostUnreachable, error: \"All hosts are unreachable\" })"
            /\ \A i \in (n - K)..(n - 1) : bus[i].ev = "Retry"
            /\ toClient # <<>>
            /\ IF proto = "Socks5Tcp"
               THEN /\ toClient[Len(toClient)].bytes[2] = 4
                    /\ Len(toClient[Len(toClient)].bytes) = buf.n
               ELSE toClient[Len(toClient)].text = HTTP_500

\* both candidates of a SOCKS5 CONNECT refused or timed out
C9_Witness ==
    /\ pc = "returned"
    /\ AllFailToConnect
    /\ Len(cands) = 2
    /\ proto = "Socks5Tcp"

\* ------------------------------------------------------------------------
\* C10: when an HTTP request yields no target (no Host: header and no
\* request-target token) the handler writes HTTP/1.1 400 Bad Request,
\* sends a single Error and closes, without resolving or dialling.
\* ------------------------------------------------------------------------

NoTarget == buf.text /\ http_addr(buf.toks).tag = "none"

\* C10: a request without a target is answered 400, with one Error
C10_BadRequest ==
    (pc # "accepted" /\ NoTarget) =>
        /\ pc = "returned"
        /\ Len(toClient) = 1
        /\ toClient[1].text = HTTP_400
        /\ Count("Error") = 1
        /\ Count("Resolved") = 0

\* ------------------------------------------------------------------------
\* C11: when the name resolution of the target fails or yields no result
\* the handler writes HTTP/1.1 404 Not Found on the HTTP and CONNECT paths,
\* or a SOCKS5 reply with REP = 04 on the SOCKS5 TCP path, sends Error, and
\* never attempts a connect: no Retry, no Connected.
\* ------------------------------------------------------------------------
\* the head of a resolving path has run and has no candidate
ResolveFailed ==
    /\ proto \in {"Http", "Https", "Socks5Tcp"}
    /\ cands = <<>>

\* C11: a failed resolution ends the connection with the not-found reply
\* and one Error, and nothing is dialled
C11_NotFound ==
    ResolveFailed =>
        /\ pc = "returned"
        /\ tried = <<>>
        /\ remote.tag = "none"
        /\ Count("Retry") = 0
        /\ Count("Connected") = 0
        /\ Count("Error") = 1
        /\ bus[Len(bus)].ev = "Error"
        /\ toClient # <<>>
        /\ LET reply == toClient[Len(toClient)] IN
           IF proto = "Socks5Tcp"
           THEN /\ Len(reply.bytes) = buf.n
                /\ reply.bytes[1] = 5
                /\ reply.bytes[2] = 4
                /\ \A i \in 3..buf.n : reply.bytes[i] = buf.bytes[i]
           ELSE reply.text = "HTTP/1.1 404 Not Found\r\n\r\n"

\* the lookup of the domain name of a SOCKS5 CONNECT found nothing
C11_Witness ==
    /\ ResolveFailed
    /\ proto = "Socks5Tcp"
    /\ addr.val.atyp = 3
    /\ pc = "returned"

\* ------------------------------------------------------------------------
\* C13: on the plain-HTTP path the first bytes written to the upstream are
\* the bytes of the initial sniff, and every client byte is forwarded once:
\* the sniffed request is neither dropped nor repeated by the relay.
\* ------------------------------------------------------------------------
\* the bytes the relay wrote to the upstream: the chunks after the first k
RECURSIVE RelayedFrom(_, _)
RelayedFrom(out, k) ==
    IF k > Len(out) THEN 0
    ELSE (IF "relayed" \in DOMAIN out[k] THEN out[k].relayed ELSE 0)
         + RelayedFrom(out, k + 1)

\* the chunks of out that are a write of the sniffed request
RequestChunks(out) == {k \in DOMAIN out : "request" \in DOMAIN out[k]}

\* C13: the upstream of a plain-HTTP connection receives the request of the
\* first read first and once, then what the relay read from the client
C13_RequestForwardedOnce ==
    proto = "Http" =>
        /\ Count("Connected") > 0 => toRemote # <<>>
        /\ toRemote # <<>> =>
              /\ RequestChunks(toRemote) = {1}
              /\ toRemote[1].request = buf
              /\ toRemote[1].request.n = sniffed
        /\ RelayedFrom(toRemote, 1) <= rd["local"]
        /\ half["up"] # "err" => RelayedFrom(toRemote, 1) = rd["local"]

\* a request was forwarded and the relay forwarded more client bytes after it
C13_Witness ==
    /\ proto = "Http"
    /\ Count("Connected") = 1
    /\ Len(toRemote) >= 2
    /\ RelayedFrom(toRemote, 1) > 0
    /\ pc = "returned"

\* ------------------------------------------------------------------------
\* C15: on a successful SOCKS5 CONNECT the reply is 05 00 00 ATYP ADDR PORT
\* with the local address of the upstream socket and the port big-endian:
\* ATYP 01 and 10 bytes for IPv4, ATYP 04 and 22 bytes for IPv6; it is sent
\* before any relayed upstream byte.
\* ------------------------------------------------------------------------
\* the positions of toClient that hold bytes relayed from the upstream
RelayedToClient == {k \in DOMAIN toClient : "relayed" \in DOMAIN toClient[k]}

\* C15: the success reply of a SOCKS5 CONNECT carries the upstream socket's
\* local address and precedes the relayed bytes
C15_ConnectReply ==
    (proto = "Socks5Tcp" /\ Count("Connected") > 0) =>
        /\ Len(toClient) >= 2
        /\ toClient[1] = [bytes |-> <<5, 0>>]
        /\ "bytes" \in DOMAIN toClient[2]
        /\ LET r == toClient[2].bytes
               a == remote.val.local
               v4 == Len(a.ip) = 4
               len == IF v4 THEN 10 ELSE 22
           IN  /\ Len(a.ip) \in {4, 16}
               /\ Len(r) = len
               /\ SubSeq(r, 1, 4) = <<5, 0, 0, IF v4 THEN 1 ELSE 4>>
               /\ SubSeq(r, 5, len - 2) = a.ip
               /\ r[len - 1] \in 0..255
               /\ r[len] \in 0..255
               /\ r[len - 1] * 256 + r[len] = a.port
        /\ \A k \in RelayedToClient : k > 2

\* a CONNECT over an IPv6 upstream socket was answered and bytes of the
\* upstream were relayed after the reply
C15_Witness ==
    /\ proto = "Socks5Tcp"
    /\ Count("Connected") = 1
    /\ Len(toClient) >= 3
    /\ Len(toClient[2].bytes) = 22
    /\ RelayedToClient # {}

\* ------------------------------------------------------------------------
\* C19: when binding the selected source address fails for a candidate the
\* handler sends Retry and moves to the next candidate; a bind failure on a
\* candidate that is not the last does not end the dial.
\* ------------------------------------------------------------------------
\* the candidates for which Socket::new or bind failed
BindFailures == {i \in DOMAIN tried : tried[i] = "bind_err"}

\* C19: every bind failure is followed by a Retry and, when candidates
\* remain, by the attempt on the next candidate
C19_BindFailureRetried ==
    \A i \in BindFailures :
        /\ Count("Retry") >= Cardinality({j \in 1..i : tried[j] # "ok"})
        /\ i < Len(cands) => (Len(tried) > i \/ pc = "connect")

\* ------------------------------------------------------------------------
\* C17: with a preference Some(p), among candidates with the same
\* pool-presence those of the preferred family (IPv6 when p, IPv4 when not
\* p) precede those of the other family, and candidates with equal keys
\* keep the order of the OS.
\* ------------------------------------------------------------------------
\* whether the pool holds an address of the candidate's family
InPool(a) == IF Len(a.ip) = 4 THEN ip4.val # <<>> ELSE ip6.val # <<>>

\* whether the candidate is of the family the preference names
Preferred(a) == (Len(a.ip) = 16) = cfg.ipv6_first.val

\* the positions of s that hold a
Positions(s, a) == {i \in DOMAIN s : s[i] = a}

\* C17: no candidate of the non-preferred family precedes a candidate of
\* the preferred family with the same pool-presence; candidates of the same
\* presence and family are in the order of the lookup
C17_PreferredFamilyFirst ==
    (pc = "lookup_ok" /\ cfg.ipv6_first.tag = "some") =>
        /\ \A i, j \in DOMAIN hosts :
              (i < j /\ InPool(hosts[i]) = InPool(hosts[j]))
                  => ~(Preferred(hosts[j]) /\ ~Preferred(hosts[i]))
        /\ \A f \in {4, 16} :
              LET OfFamily(a) == Len(a.ip) = f
              IN  SelectSeq(hosts, OfFamily) = SelectSeq(answer.val, OfFamily)

\* ------------------------------------------------------------------------
\* C18: with a preference configured, every candidate whose family is in the
\* address pool precedes every candidate whose family is not, and the
\* output is a permutation of the lookup result: candidates of an absent
\* family trail, they are not dropped.
\* ------------------------------------------------------------------------
\* C18: present before absent, and nothing dropped or added
C18_PresentFirstPermutation ==
    (pc = "lookup_ok" /\ cfg.ipv6_first.tag = "some") =>
        /\ \A i, j \in DOMAIN hosts :
              i < j => ~(InPool(hosts[j]) /\ ~InPool(hosts[i]))
        /\ Len(hosts) = Len(answer.val)
        /\ \A a \in LookupCands :
              Cardinality(Positions(hosts, a))
                  = Cardinality(Positions(answer.val, a))

\* the lookup put a candidate of the absent family before one of the present
\* family, and lookup_host moved it behind
C18_Witness ==
    /\ pc = "lookup_ok"
    /\ cfg.ipv6_first.tag = "some"
    /\ Len(hosts) = 3
    /\ ~InPool(answer.val[1])
    /\ InPool(answer.val[3])
    /\ InPool(hosts[1])
    /\ ~InPool(hosts[3])
    /\ hosts[3] \in {answer.val[1], answer.val[2]}

\* ------------------------------------------------------------------------
\* C14: for a greeting 05 NMETHODS M.., if method 00 is not among the
\* offered methods the handler replies exactly 05 FF, closes and never
\* reads a request; otherwise it replies exactly 05 00 and goes on to read
\* the request.
\* ------------------------------------------------------------------------
\* the greeting at the head of what the client sent: its length, its methods
GreetingLen(g) == 2 + g[2]
Offered(g) == {g[i] : i \in 3..Min(GreetingLen(g), Len(g))}

\* C14: once the first read has returned the whole greeting and the handler
\* has answered it, the answer is 05 00 if 00 was offered (unless the write
\* failed) and 05 FF followed by the return if not
C14_MethodSelection ==
    (/\ clientSent # <<>>
     /\ sniffed >= GreetingLen(clientSent)
     /\ pc \notin {"accepted", "socks_recv"}) =>
        IF 0 \in Offered(clientSent)
        THEN \/ toClient = <<>> /\ pc = "returned" /\ Count("Error") = 1
             \/ toClient # <<>> /\ toClient[1] = [bytes |-> <<5, 0>>]
        ELSE /\ toClient = <<[bytes |-> <<5, 255>>]>>
             /\ pc = "returned"
             /\ buf.n = sniffed

\* ------------------------------------------------------------------------
\* C12: on the CONNECT path the client receives the exact bytes
\* HTTP/1.1 200 Connection Established\r\n\r\n exactly once, only after the
\* upstream connection is established, and never when resolve or dial fails.
\* ------------------------------------------------------------------------
\* the positions of toClient that hold the text
TextSent(text) ==
    {k \in DOMAIN toClient : "text" \in DOMAIN toClient[k] /\ toClient[k].text = text}

\* C12: once the relay of a CONNECT has started the client has been sent the
\* 200 Connection Established line once, and before the connection is
\* established it has not been sent
C12_ConnectionEstablished ==
    proto = "Https" =>
        /\ Count("Connected") = 0 =>
              TextSent("HTTP/1.1 200 Connection Established\r\n\r\n") = {}
        /\ half["down"] # "none" =>
              /\ Cardinality(TextSent("HTTP/1.1 200 Connection Established\r\n\r\n")) = 1
              /\ \A k \in RelayedToClient :
                    \E t \in TextSent("HTTP/1.1 200 Connection Established\r\n\r\n") : t < k

\* ------------------------------------------------------------------------
\* C20: when the connect attempt to a candidate times out the handler sends
\* Retry and moves to the next candidate; a timeout on a candidate that is
\* not the last does not end the connection.
\* ------------------------------------------------------------------------
\* the candidates whose connect attempt timed out
ConnectTimeouts == {i \in DOMAIN tried : tried[i] = "connect_timeout"}

\* C20: every timeout is followed by a Retry, not by an Error, and when
\* candidates remain the next one is tried
C20_TimeoutRetried ==
    \A i \in ConnectTimeouts :
        /\ Count("Retry") >= Cardinality({j \in 1..i : tried[j] # "ok"})
        /\ \A k \in DOMAIN bus : bus[k].arg # "Timeout"
        /\ i < Len(cands) => (Len(tried) > i \/ pc = "dial")

\* ------------------------------------------------------------------------
\* C16: after any sequence of events consumed by the summary the counters
\* of each group are (sum of N over its Upload(N), sum of N over its
\* Download(N)); they never decrease, the tick and the purge of finished
\* jobs leave them unchanged, and a lookup of a group that has had no
\* traffic reports ul = 0 and dl = 0.
\* ------------------------------------------------------------------------
\* the sum of n over the events of the kind and group among the first k
\* events consumed
RECURSIVE Traffic(_, _, _)
Traffic(kind, group, k) ==
    IF k = 0 THEN 0
    ELSE Traffic(kind, group, k - 1)
         + (IF consumed[k].ev = kind /\ consumed[k].group = group
            THEN consumed[k].n ELSE 0)

\* the totals recorded for the group: none is (0, 0)
Recorded(group) ==
    IF group \in DOMAIN bit_counter THEN bit_counter[group] ELSE <<0, 0>>

SourcesFor(peer) ==
    IF Len(peer.ip) = 4
    THEN {ip4.val[i] : i \in DOMAIN ip4.val} \cup {Kernel4}
    ELSE {ip6.val[i] : i \in DOMAIN ip6.val} \cup {Kernel6}

\* the Connected events of a dialled connection
DialledConnected ==
    {k \in DOMAIN bus : bus[k].ev = "Connected"
                        /\ proto \in {"Http", "Https", "Socks5Tcp"}}

\* C21: the upstream socket and every Connected event have a local address
\* of the family of the candidate, taken from that family's pool
C21_BoundFamily ==
    /\ remote.tag = "some" =>
          /\ Len(remote.val.local.ip) = Len(remote.val.peer.ip)
          /\ remote.val.local.ip \in SourcesFor(remote.val.peer)
    /\ \A k \in DialledConnected :
          /\ Len(bus[k].arg.bind) = Len(bus[k].arg.peer.ip)
          /\ bus[k].arg.bind \in SourcesFor(bus[k].arg.peer)

\* a connection over IPv6 was announced with a source of the IPv6 pool after
\* an IPv4 candidate had been tried
C21_Witness ==
    /\ DialledConnected # {}
    /\ Len(cands) >= 2
    /\ Len(cands[1].ip) = 4
    /\ Len(remote.val.peer.ip) = 16
    /\ remote.val.local.ip = V6a

\* ------------------------------------------------------------------------
\* C22: given at least 3 initial bytes, a first byte 05 takes the SOCKS5
\* path; otherwise, if the first min(n, 16) bytes are valid UTF-8, the HTTP
\* path is taken, CONNECT or plain by the method; otherwise Error for an
\* unknown protocol is sent and nothing is written to the client.
\* ------------------------------------------------------------------------
\* the first byte of a read, and whether its first min(n, 16) bytes are
\* valid UTF-8 (the reads of the model are ASCII but for bytes above 7F)
OpensWith05(r) == ~r.text /\ r.bytes[1] = 5
ValidHead(r) ==
    r.text \/ \A i \in 1..(IF r.n < 16 THEN r.n ELSE 16) : r.bytes[i] <= 127

\* C22: the step of the first read, when it returns 3 bytes or more, goes
\* to the path the sniff names; the HTTP path ends at once when no target is
\* found in the buffer
C22_Dispatch ==
    [][(pc = "accepted" /\ buf'.n >= 3) =>
        IF OpensWith05(buf')
        THEN pc' = "socks_recv" /\ toClient' = <<>>
        ELSE IF ValidHead(buf')
        THEN /\ pc' \in {"http_resolved", "https_resolved", "panicked"}
             /\ pc' = "https_resolved" => buf'.toks[1] = T_CONNECT
             /\ pc' = "http_resolved" => buf'.toks[1] # T_CONNECT
             /\ toClient' = <<>>
        ELSE /\ pc' = "returned"
             /\ bus' = <<Ev("Received", "peer"), Ev("Error", "Unknown protocol")>>
             /\ toClient' = <<>>]_vars

\* a read of 17 bytes whose 17th is not UTF-8 went to the plain HTTP path
C22_Witness ==
    /\ buf.n = 17
    /\ ~buf.text
    /\ buf.bytes[17] = 254
    /\ pc = "http_resolved"

\* ------------------------------------------------------------------------
\* C23: the target of a request split on ASCII whitespace is the token after
\* the first token equal to Host: without regard to case, or the
\* request-target (token 1) when there is no such header; :80 is appended
\* exactly when the target is bracketed or has no colon.
\* ------------------------------------------------------------------------
IsHostHeader(t) ==
    /\ Len(t) = 5
    /\ t[1] \in {"H", "h"} /\ t[2] \in {"O", "o"} /\ t[3] \in {"S", "s"}
    /\ t[4] \in {"T", "t"} /\ t[5] = ":"

\* the positions of the Host: tokens that are followed by a token
HostHeaders(toks) == {i \in 1..(Len(toks) - 1) : IsHostHeader(toks[i])}

RequestTarget(toks) ==
    IF HostHeaders(toks) = {} THEN toks[2]
    ELSE toks[(CHOOSE i \in HostHeaders(toks) :
                  \A j \in HostHeaders(toks) : i <= j) + 1]

WithDefaultPort(t) ==
    IF (t[1] = "[" /\ t[Len(t)] = "]") \/ (\A i \in DOMAIN t : t[i] # ":")
    THEN t \o <<":", "8", "0">> ELSE t

\* C23: once a request of two tokens or more has been sniffed, the target
\* is the one its tokens name
C23_HttpTarget ==
    (buf.text /\ Len(buf.toks) >= 2) =>
        /\ addr.tag = "some"
        /\ addr.val.host = WithDefaultPort(RequestTarget(buf.toks))


\* C24: in the TCP relay a read that fails with timed-out or would-block
\* ends its copy half cleanly: no Error event is put on the bus because of
\* it.  The only event the relay emits for such a read is Error("IO
\* timeout"), so the claim is that the bus never holds one.
C24_TimeoutEndsCleanly ==
    \A i \in 1..Len(bus) :
        ~(bus[i].ev = "Error" /\ bus[i].arg = "IO timeout")

\* C25: during the TCP relay, once either socket is closed or has reached
\* EOF, both copy halves eventually finish and the handler has emitted its
\* terminal event: no half stays blocked after its peer half has ended.
C25_RelayDrains ==
    (pc = "tcp_relay" /\ \E s \in Sockets : sock[s] # "open")
        ~> (/\ pc = "returned"
            /\ \A h \in Halves : half[h] \in {"ok", "err"})

\* the same for a relay one of whose halves has ended on EOF (Ok(0)), the
\* case in which copy shuts the other socket down
EofDrains ==
    (pc = "tcp_relay" /\ \E h \in Halves : half[h] = "ok")
        ~> (/\ pc = "returned"
            /\ \A h \in Halves : half[h] \in {"ok", "err"})

\* C26: once the control connection of a UDP association is readable or
\* closed, the relay loop eventually terminates (and Done is emitted),
\* whether or not another datagram arrives.  The formula states the
\* termination of the loop, without which there is no Done.
C26_ControlEndsRelay ==
    (pc \in {"socks_udp_relay", "socks_udp_recv_from"} /\ sock["local"] # "open")
        ~> (pc \notin {"socks_udp_relay", "socks_udp_recv_from"})

\* the SOCKS5 UDP header that names the endpoint src
SourceHeader(src) ==
    <<0, 0, 0, IF Len(src.ip) = 4 THEN 1 ELSE 4>>
        \o src.ip \o <<src.port \div 256, src.port % 256>>

\* the datagram received i-th was sent back to the endpoint client, wrapped
SentBack(i, client) ==
    \E k \in 1..Len(udpOut) :
        /\ udpOut[k].of = i
        /\ udpOut[k].dir = "back"
        /\ udpOut[k].data = SourceHeader(dgrams[i].src) \o dgrams[i].data
        /\ udpOut[k].to.host = client.ip
        /\ udpOut[k].to.port = client.port

\* C27: the client endpoint of a UDP association is the source of the first
\* datagram received and never changes; every datagram received from another
\* source is sent to that endpoint as a SOCKS5 UDP header with the source's
\* address and port (ATYP 01 for IPv4, 04 for IPv6) followed by the payload
\* as received (unless the send itself fails, which ends the relay).
C27_ClientEndpoint ==
    /\ udpLocal = IF dgrams = <<>> THEN None ELSE Some(dgrams[1].src)
    /\ \A i \in 1..Len(dgrams) :
        dgrams[i].src # dgrams[1].src =>
            \/ SentBack(i, dgrams[1].src)
            \/ /\ i = Len(dgrams)
               /\ pc = "returned"
               /\ bus[Len(bus)].ev = "Error"
    /\ \A k \in 1..Len(udpOut) :
        udpOut[k].dir = "back" => dgrams[udpOut[k].of].src # dgrams[1].src

C27_Witness ==
    /\ Len(dgrams) = 2
    /\ dgrams[1].src = ClientUdp
    /\ dgrams[2].src = Other6Udp
    /\ SentBack(2, ClientUdp)
    /\ udpLocal = Some(ClientUdp)

\* the step receives a datagram that comes from the client endpoint and has a
\* non-zero FRAG byte or fewer than 10 bytes
ClientDatagramUnfit ==
    /\ Len(dgrams') = Len(dgrams) + 1
    /\ LET x == dgrams'[Len(dgrams')]
       IN  /\ udpLocal'.tag = "some"
           /\ x.src = udpLocal'.val
           /\ (Len(x.data) < 10 \/ x.data[3] # 0)

\* nothing is sent, no event is emitted, the endpoint stays, the loop goes on
SilentlyDropped ==
    /\ udpOut' = udpOut
    /\ bus' = bus
    /\ udpLocal' = udpLocal
    /\ pc' = pc

\* C28: a datagram from the client side whose FRAG byte is non-zero or whose
\* length is below 10 is silently dropped: nothing is sent for it, no event
\* is emitted, the learned client endpoint is unchanged and the association
\* keeps serving.
C28_SilentDrop == [][ClientDatagramUnfit => SilentlyDropped]_vars

\* C28 for the datagrams received once the client endpoint has been learned;
\* the first datagram of an association, dropped or not, sets the endpoint
\* and emits Connected.
C28_SilentDropOnceLearned ==
    [][(udpLocal.tag = "some" /\ ClientDatagramUnfit) => SilentlyDropped]_vars

C28_Witness ==
    /\ Len(dgrams) = 2
    /\ dgrams[1].src = ClientUdp
    /\ dgrams[2] = [data |-> D_frag, src |-> ClientUdp]
    /\ pc = "socks_udp_relay"
    /\ \A k \in 1..Len(udpOut) : udpOut[k].of # 2

\* C29: a failure to put a progress event on the bus does not make the relay
\* fail: the event is dropped and the copy goes on.  A step that ends the
\* report of a half and leaves the bus as it was is a failed send; after it
\* the half must be back at its read.
C29_ProgressLossTolerated ==
    [][\A h \in Halves :
          (half[h] = "report" /\ half'[h] # "report" /\ bus' = bus)
              => half'[h] = "read"]_vars

\* C30: whatever bytes the client sends (an HTTP request without a target, a
\* SOCKS5 request with an unsupported ATYP or truncated before its address
\* or port, a UDP datagram with an undecodable header), the handler recovers
\* internally: it never panics.
C30_NeverPanics == pc # "panicked"

\* C31: the event consumer keeps running after any sequence of events with
\* id # 0 that handlers can emit, in any order and for known or unknown ids:
\* as long as every event taken so far has a non-zero id, the consumer
\* thread is still in its loop.
C31_ConsumerKeepsRunning ==
    (\A i \in 1..Len(consumed) : consumed[i].id # 0) => pc = "accepted"
====
